---- MODULE Spec2Model ----
(***************************************************************************)
(* Job queue, worker pool and transcription handler of zbor.               *)
(*                                                                         *)
(* The processing_jobs and sources tables are sequences of rows (the row   *)
(* index is the generated id).  Nullable columns and Go pointer fields are *)
(* Nil (<<>>) or Ptr(v) (<<v>>).  Each Worker runs run/processNextJob as a *)
(* sequence of steps, one per database statement, so that the statements   *)
(* of different workers interleave as they do on the shared database.      *)
(***************************************************************************)
EXTENDS Integers, Sequences, FiniteSets, TLC

\* ---------------------------------------------------------------- bounds
MaxJobs == 2
NumWorkers == 2
MaxSources == 1

\* asr package: longest token list handed to a pure function, and the last
\* instant (in Ticks) on its timeline
MaxTokens == 3
MaxTime == 2

\* block splitting: most blocks in a list, the last instant (in seconds) a
\* block can end at, and the longest max_block (in seconds)
MaxBlocks == 2
MaxBlockEnd == 10
MaxSplit == 5

\* silence detection: most frames in an RMS trace
MaxFrames == 6

\* alignment: most original tokens, and most runes of the new text
MaxAlignTokens == 2
MaxRunes == 3

\* partial re-transcription: most tokens one recogniser call returns, and
\* most tokens of a transcript that is re-transcribed
MaxCallTokens == 1
MaxStoredTokens == 3

\* estimateDuration: most anchors
MaxAnchors == 2

\* transcription artifacts: counted per source up to this many
MaxArtifacts == 2


\* ------------------------------------------------------ program constants
maxRetries == 3

\* handler invocations counted per job: one more than the retry budget allows
MaxCalls == maxRetries + 2
JobPriorityImmediate == 0
JobPriorityNormal == 5

JobStatusQueued == "queued"
JobStatusRunning == "running"
JobStatusCompleted == "completed"
JobStatusFailed == "failed"

SourceStatusPending == "pending"
SourceStatusProcessing == "processing"
SourceStatusCompleted == "completed"
SourceStatusFailed == "failed"

JobTypeTranscribe == "transcribe"
JobTypes == {JobTypeTranscribe}

\* Error texts a handler invocation can return, and the worker's own one.
ErrNoSourceID == "job has no source ID"
ErrTranscribe == "failed to transcribe"
ErrCancelled == "context canceled"
ErrNoHandler == "no handler registered for job type"

Workers == 1..NumWorkers

\* The instant time.Now() writes into started_at / completed_at: only
\* whether the column is NULL or stamped is kept
Now == "now"

\* Go pointers / SQL NULL
Nil == <<>>
Ptr(v) == <<v>>
Deref(p) == p[1]

VARIABLES
    jobs,             \* processing_jobs rows, index = id
    sources,          \* sources rows, index = id
    clock,            \* time.Now()
    handlers,         \* handlers[w]: job types registered on worker w
    ctxDone,          \* the context given to Worker.Start is cancelled
    pc,               \* pc[w]: position of worker w in run/processNextJob
    wjob,             \* wjob[w]: the row returned by GetNextQueued (Nil if none)
    herr,             \* herr[w]: error returned by the handler (Nil = success)
    created,          \* created[id]: the job struct handed to Create
    handlerCalls,     \* handlerCalls[id]: number of handler invocations
    artifacts,        \* artifacts[s]: processing_artifacts rows of type
                      \* transcription of source s, counted
    transcript,       \* the Result stored in the transcription artifact
    args,             \* arguments of the last call of an asr function or
                      \* of the Retranscribe handler
    ret               \* what that call returned

\* the tables and the workers
jobVars == <<jobs, sources, clock, handlers, ctxDone, pc, wjob, herr,
             created, handlerCalls, artifacts>>

\* the transcript and the asr package
asrVars == <<transcript, args, ret>>

vars == <<jobs, sources, clock, handlers, ctxDone, pc, wjob, herr,
          created, handlerCalls, artifacts, transcript, args, ret>>

JobIds == 1..Len(jobs)
SourceIds == 1..Len(sources)

\* ------------------------------------------------------------ repository

\* JobRepository.Create: fills id, created_at, and status / priority when
\* they are nil; every other field is inserted as given (retry_count too).
Create(job, now) ==
    [ type         |-> job.Type,
      source_id    |-> job.SourceID,
      status       |-> IF job.Status = Nil THEN Ptr(JobStatusQueued) ELSE job.Status,
      priority     |-> IF job.Priority = Nil THEN Ptr(JobPriorityNormal) ELSE job.Priority,
      progress     |-> job.Progress,
      retry_count  |-> job.RetryCount,
      error        |-> job.Error,
      created_at   |-> now,
      started_at   |-> job.StartedAt,
      completed_at |-> job.CompletedAt ]

\* ORDER BY created_at ASC, priority ASC
OrderedByAgeFirst(a, b) ==
    \/ a.created_at < b.created_at
    \/ /\ a.created_at = b.created_at
       /\ Deref(a.priority) < Deref(b.priority)

\* ORDER BY priority ASC, created_at ASC
OrderedBefore(a, b) ==
    \/ Deref(a.priority) < Deref(b.priority)
    \/ /\ Deref(a.priority) = Deref(b.priority)
       /\ a.created_at < b.created_at

\* GetNextQueuedJob: WHERE status = 'queued' ORDER BY ... LIMIT 1.  The set
\* of ids the statement may return (rows that tie are in unspecified order);
\* empty = sql.ErrNoRows = nil.
GetNextQueuedJob(js) ==
    { j \in 1..Len(js) :
        /\ js[j].status = Ptr(JobStatusQueued)
        /\ \A k \in 1..Len(js) :
              js[k].status = Ptr(JobStatusQueued) => ~OrderedBefore(js[k], js[j]) }

\* StartJob: UPDATE ... SET status='running', started_at=? WHERE id=?
StartJob(js, id, now) ==
    [js EXCEPT ![id].status = Ptr(JobStatusRunning),
               ![id].started_at = Ptr(now)]

\* CompleteJob
CompleteJob(js, id, now) ==
    [js EXCEPT ![id].status = Ptr(JobStatusCompleted),
               ![id].progress = Ptr(100),
               ![id].completed_at = Ptr(now)]

\* FailJob
FailJob(js, id, msg, now) ==
    [js EXCEPT ![id].status = Ptr(JobStatusFailed),
               ![id].error = Ptr(msg),
               ![id].completed_at = Ptr(now)]

\* RetryJob: retry_count = retry_count + 1 (NULL + 1 is NULL in SQL)
RetryJob(js, id) ==
    [js EXCEPT ![id].status = Ptr(JobStatusQueued),
               ![id].retry_count = IF @ = Nil THEN Nil ELSE Ptr(Deref(@) + 1),
               ![id].error = Nil]

\* A repository call made with a context of its own
ExecDetached(done, rows, result) == result

\* A repository call made with the worker's context: database/sql returns
\* ctx.Err() without running the statement once the context is cancelled
Exec(done, rows, result) == IF done THEN rows ELSE result

\* SourceRepository.UpdateStatus
UpdateStatus(ss, id, status) ==
    [ss EXCEPT ![id].status = Ptr(status)]

\* ArtifactRepository.Create of a transcription artifact for the source
CreateArtifact(as, sourceID) ==
    [as EXCEPT ![sourceID] = IF @ < MaxArtifacts THEN @ + 1 ELSE @]

\* ArtifactRepository.DeleteBySourceID
DeleteBySourceID(as, sourceID) ==
    [as EXCEPT ![sourceID] = 0]

\* ------------------------------------------------------------------ Init

\* no transcription has run
InitAsr ==
    /\ transcript = Nil
    /\ args = Nil
    /\ ret = Nil

\* empty tables, idle workers
InitJobs ==
    /\ jobs = <<>>
    /\ sources = <<>>
    /\ clock = 0
    /\ handlers = [w \in Workers |-> {}]
    /\ ctxDone = FALSE
    /\ pc = [w \in Workers |-> "idle"]
    /\ wjob = [w \in Workers |-> Nil]
    /\ herr = [w \in Workers |-> Nil]
    /\ created = <<>>
    /\ handlerCalls = <<>>
    /\ artifacts = <<>>

Init == InitJobs /\ InitAsr

\* ------------------------------------------------------------ job creation

\* The job struct the callers build: only Type, SourceID, Priority and
\* (for direct users of the repository) RetryCount are ever set.
NewJob(type, sourceID, priority, retryCount) ==
    [ ID |-> "", Type |-> type, SourceID |-> sourceID, Status |-> Nil,
      Priority |-> priority, Progress |-> Nil, RetryCount |-> retryCount,
      Error |-> Nil, StartedAt |-> Nil, CompletedAt |-> Nil ]

\* jobRepo.Create(ctx, job) at a time.Now() that is dt later than the last
\* one read (dt = 0: two rows with the same created_at)
Insert(job, dt) ==
    /\ dt = 0 => Len(jobs) > 0
    /\ clock' = clock + dt
    /\ jobs' = Append(jobs, Create(job, clock + dt))
    /\ created' = Append(created, job)
    /\ handlerCalls' = Append(handlerCalls, 0)

\* AudioIngester.Ingest: a Source row (pending) and a transcribe job
Ingest(priority, dt) ==
    /\ Len(jobs) < MaxJobs
    /\ Len(sources) < MaxSources
    /\ sources' = Append(sources, [status |-> Ptr(SourceStatusPending)])
    /\ artifacts' = Append(artifacts, 0)
    /\ Insert(NewJob(JobTypeTranscribe, Ptr(Len(sources) + 1), Ptr(priority), Nil), dt)
    /\ UNCHANGED <<handlers, ctxDone, pc, wjob, herr>>
    /\ UNCHANGED asrVars

\* AudioIngester.CreateTranscriptionJob, called by RetranscribeFull only: a
\* transcribe job for an existing source, which is set to pending
CreateTranscriptionJob(sourceID, priority, dt) ==
    /\ Len(jobs) < MaxJobs
    /\ sourceID \in SourceIds
    /\ sources' = UpdateStatus(sources, sourceID, SourceStatusPending)
    /\ Insert(NewJob(JobTypeTranscribe, Ptr(sourceID), Ptr(priority), Nil), dt)
    /\ UNCHANGED <<handlers, ctxDone, pc, wjob, herr>>
    /\ UNCHANGED asrVars

\* POST .../retranscribe-full: the artifacts of the source are deleted and
\* a new transcription job is created with JobPriorityImmediate
RetranscribeFull(sourceID, dt) ==
    /\ sourceID \in SourceIds
    /\ artifacts' = DeleteBySourceID(artifacts, sourceID)
    /\ CreateTranscriptionJob(sourceID, JobPriorityImmediate, dt)

\* Worker.SubmitJob
SubmitJob(jobType, sourceID, priority, dt) ==
    /\ Len(jobs) < MaxJobs
    /\ sourceID \in SourceIds
    /\ Insert(NewJob(jobType, Ptr(sourceID), Ptr(priority), Nil), dt)
    /\ UNCHANGED <<sources, handlers, ctxDone, pc, wjob, herr>>
    /\ UNCHANGED <<artifacts, asrVars>>

\* JobRepository.Create called directly, with a job that names no source,
\* leaves the priority to the default and may carry its own retry_count
CreateJob(jobType, retryCount, dt) ==
    /\ Len(jobs) < MaxJobs
    /\ Insert(NewJob(jobType, Nil, Nil, retryCount), dt)
    /\ UNCHANGED <<sources, handlers, ctxDone, pc, wjob, herr>>
    /\ UNCHANGED <<artifacts, asrVars>>

\* ------------------------------------------------------------ environment

\* Worker.RegisterHandler
RegisterHandler(w, jobType) ==
    /\ jobType \notin handlers[w]
    /\ handlers' = [handlers EXCEPT ![w] = @ \cup {jobType}]
    /\ UNCHANGED <<jobs, sources, clock, ctxDone, pc, wjob, herr,
                   created, handlerCalls>>
    /\ UNCHANGED <<artifacts, asrVars>>

\* cancel() of the context the worker was started with.  Every repository
\* call the worker or its handler makes with that context from then on
\* fails without touching the database.
CancelContext ==
    /\ ~ctxDone
    /\ ctxDone' = TRUE
    /\ UNCHANGED <<jobs, sources, clock, handlers, pc, wjob, herr,
                   created, handlerCalls>>
    /\ UNCHANGED <<artifacts, asrVars>>

\* ---------------------------------------------------------------- worker

\* Worker.run, <-ticker.C, and the GetNextQueued of processNextJob.  With no
\* queued job (nil) and with a failed query the call returns and the worker
\* waits for the next tick.
PollNextJob(w) ==
    /\ pc[w] = "idle"
    /\ IF ctxDone \/ GetNextQueuedJob(jobs) = {}
         THEN UNCHANGED <<pc, wjob>>
         ELSE \E j \in GetNextQueuedJob(jobs) :
              /\ wjob' = [wjob EXCEPT ![w] =
                    Ptr([ID |-> j, Type |-> jobs[j].type,
                         SourceID |-> jobs[j].source_id,
                         RetryCount |-> jobs[j].retry_count])]
              /\ pc' = [pc EXCEPT ![w] = "fetched"]
    /\ UNCHANGED <<jobs, sources, clock, handlers, ctxDone, herr,
                   created, handlerCalls>>
    /\ UNCHANGED <<artifacts, asrVars>>

\* the lookup result ok is dropped
HasHandlerUnchecked(w, jobType) == TRUE

\* processNextJob: handler, ok := w.handlers[job.Type]
HasHandler(w, jobType) == jobType \in handlers[w]

\* processNextJob, no handler for job.Type: Fail (its error is discarded)
NoHandler(w) ==
    /\ pc[w] = "fetched"
    /\ LET job == Deref(wjob[w]) IN
       /\ ~HasHandler(w, job.Type)
       /\ jobs' = Exec(ctxDone, jobs, FailJob(jobs, job.ID, ErrNoHandler, Now))
    /\ pc' = [pc EXCEPT ![w] = "idle"]
    /\ wjob' = [wjob EXCEPT ![w] = Nil]
    /\ UNCHANGED <<sources, clock, handlers, ctxDone, herr,
                   created, handlerCalls>>
    /\ UNCHANGED <<artifacts, asrVars>>

\* processNextJob, handler found: Start, then the handler is invoked
StartHandler(w, counted) ==
    /\ pc[w] = "fetched"
    /\ LET job == Deref(wjob[w]) IN
       /\ HasHandler(w, job.Type)
       /\ IF ctxDone
            THEN \* Start fails: log and return
                 /\ pc' = [pc EXCEPT ![w] = "idle"]
                 /\ wjob' = [wjob EXCEPT ![w] = Nil]
                 /\ UNCHANGED <<jobs, handlerCalls>>
            ELSE /\ jobs' = StartJob(jobs, job.ID, Now)
                 /\ pc' = [pc EXCEPT ![w] = "handling"]
                 /\ IF counted
                      THEN /\ handlerCalls[job.ID] < MaxCalls
                           /\ handlerCalls' = [handlerCalls EXCEPT ![job.ID] = @ + 1]
                      ELSE UNCHANGED handlerCalls
                 /\ UNCHANGED wjob
    /\ UNCHANGED <<sources, clock, handlers, ctxDone, herr, created>>
    /\ UNCHANGED <<artifacts, asrVars>>

\* ProcessTranscription up to "Update source status": the job must name a
\* source; the source is loaded and set to processing
LoadSource(w) ==
    /\ pc[w] = "handling"
    /\ LET job == Deref(wjob[w]) IN
       IF job.SourceID = Nil
         THEN /\ herr' = [herr EXCEPT ![w] = Ptr(ErrNoSourceID)]
              /\ pc' = [pc EXCEPT ![w] = "returned"]
              /\ UNCHANGED sources
         ELSE IF ctxDone
         THEN /\ herr' = [herr EXCEPT ![w] = Ptr(ErrCancelled)]
              /\ pc' = [pc EXCEPT ![w] = "returned"]
              /\ UNCHANGED sources
         ELSE /\ sources' = UpdateStatus(sources, Deref(job.SourceID),
                                         SourceStatusProcessing)
              /\ pc' = [pc EXCEPT ![w] = "transcribing"]
              /\ UNCHANGED herr
    /\ UNCHANGED <<jobs, clock, handlers, ctxDone, wjob,
                   created, handlerCalls>>
    /\ UNCHANGED <<artifacts, asrVars>>

\* ProcessTranscription from "Parse metadata" to its return: the error
\* paths before "Save transcription artifact" return the error and nothing
\* else, those after it (the article, the source status) return the error
\* with the artifact saved; success sets the source to completed
Transcribe(w, ok, saved) ==
    /\ pc[w] = "transcribing"
    /\ ok => saved
    /\ LET job == Deref(wjob[w]) IN
       IF ctxDone
         THEN \* the next repository call fails on the cancelled context
              /\ herr' = [herr EXCEPT ![w] = Ptr(ErrCancelled)]
              /\ UNCHANGED <<sources, artifacts>>
         ELSE IF ok
         THEN /\ artifacts' = CreateArtifact(artifacts, Deref(job.SourceID))
              /\ sources' = UpdateStatus(sources, Deref(job.SourceID),
                                         SourceStatusCompleted)
              /\ herr' = [herr EXCEPT ![w] = Nil]
         ELSE /\ artifacts' = IF saved
                                THEN CreateArtifact(artifacts, Deref(job.SourceID))
                                ELSE artifacts
              /\ herr' = [herr EXCEPT ![w] = Ptr(ErrTranscribe)]
              /\ UNCHANGED sources
    /\ pc' = [pc EXCEPT ![w] = "returned"]
    /\ UNCHANGED <<jobs, clock, handlers, ctxDone, wjob,
                   created, handlerCalls>>
    /\ UNCHANGED asrVars

\* processNextJob, the handler returned nil: Complete
CompleteHandled(w) ==
    /\ pc[w] = "returned"
    /\ herr[w] = Nil
    /\ jobs' = Exec(ctxDone, jobs, CompleteJob(jobs, Deref(wjob[w]).ID, Now))
    /\ pc' = [pc EXCEPT ![w] = "idle"]
    /\ wjob' = [wjob EXCEPT ![w] = Nil]
    /\ UNCHANGED <<sources, clock, handlers, ctxDone, herr,
                   created, handlerCalls>>
    /\ UNCHANGED <<artifacts, asrVars>>

\* handleJobFailure: the retry count of the fetched row, nil read as 0
retryCount(job) == IF job.RetryCount = Nil THEN 0 ELSE Deref(job.RetryCount)

ShouldRetry(job) == retryCount(job) < maxRetries

\* processNextJob, the handler returned an error: handleJobFailure
handleJobFailure(w) ==
    /\ pc[w] = "returned"
    /\ herr[w] # Nil
    /\ LET job == Deref(wjob[w]) IN
       jobs' = IF ShouldRetry(job)
                 THEN Exec(ctxDone, jobs, RetryJob(jobs, job.ID))
                 ELSE Exec(ctxDone, jobs, FailJob(jobs, job.ID, Deref(herr[w]), Now))
    /\ pc' = [pc EXCEPT ![w] = "idle"]
    /\ wjob' = [wjob EXCEPT ![w] = Nil]
    /\ herr' = [herr EXCEPT ![w] = Nil]
    /\ UNCHANGED <<sources, clock, handlers, ctxDone, created, handlerCalls>>
    /\ UNCHANGED <<artifacts, asrVars>>

\* ------------------------------------------------------------------ Next
Priorities == {JobPriorityImmediate, JobPriorityNormal}
RetryCounts == {Nil, Ptr(0)}
Delays == {0, 1}

Next ==
    \/ \E p \in Priorities, dt \in Delays : Ingest(p, dt)
    \/ \E s \in SourceIds, dt \in Delays : RetranscribeFull(s, dt)
    \/ \E t \in JobTypes, s \in SourceIds, p \in Priorities, dt \in Delays :
          SubmitJob(t, s, p, dt)
    \/ \E w \in Workers, t \in JobTypes : RegisterHandler(w, t)
    \/ \E w \in Workers : PollNextJob(w)
    \/ \E w \in Workers : NoHandler(w)
    \/ \E w \in Workers : StartHandler(w, FALSE)
    \/ \E w \in Workers : LoadSource(w)
    \/ \E w \in Workers, ok, saved \in BOOLEAN : Transcribe(w, ok, saved)
    \/ \E w \in Workers : CompleteHandled(w)
    \/ \E w \in Workers : handleJobFailure(w)

\* The pool while the context given to the workers is live
Spec == Init /\ [][Next]_vars

\* The deployed configuration: main creates one Worker and starts it once,
\* so one goroutine polls the queue while the handlers create jobs
TheWorker == CHOOSE w \in Workers : TRUE

NextSerial ==
    \/ \E p \in Priorities, dt \in Delays : Ingest(p, dt)
    \/ \E s \in SourceIds, dt \in Delays : RetranscribeFull(s, dt)
    \/ \E t \in JobTypes, s \in SourceIds, p \in Priorities, dt \in Delays :
          SubmitJob(t, s, p, dt)
    \/ \E t \in JobTypes : RegisterHandler(TheWorker, t)
    \/ PollNextJob(TheWorker)
    \/ NoHandler(TheWorker)
    \/ StartHandler(TheWorker, FALSE)
    \/ LoadSource(TheWorker)
    \/ \E ok, saved \in BOOLEAN : Transcribe(TheWorker, ok, saved)
    \/ CompleteHandled(TheWorker)
    \/ handleJobFailure(TheWorker)

SpecSerial == Init /\ [][NextSerial]_vars

\* The steps of the goroutine started by Worker.Start: a tick of the
\* ticker and the statements of processNextJob and of the handler
NextTick ==
    \/ PollNextJob(TheWorker)
    \/ NoHandler(TheWorker)
    \/ StartHandler(TheWorker, FALSE)
    \/ LoadSource(TheWorker)
    \/ \E ok, saved \in BOOLEAN : Transcribe(TheWorker, ok, saved)
    \/ CompleteHandled(TheWorker)
    \/ handleJobFailure(TheWorker)

\* The single worker whose context stays live: the ticker keeps firing,
\* every call of processNextJob and of the handler runs to its return, and
\* main registers the handlers
SpecSerialLive ==
    /\ SpecSerial
    /\ WF_vars(NextTick)
    /\ WF_vars(\E t \in JobTypes : RegisterHandler(TheWorker, t))

\* The single worker and the cancellation of its context
NextSerialCancel == NextSerial \/ CancelContext

SpecSerialCancel == Init /\ [][NextSerialCancel]_vars

\* The retry budget: the single worker and jobs handed to
\* JobRepository.Create directly, whose handler fails on every attempt, with
\* the handler invocations counted
NextBudget ==
    \/ \E t \in JobTypes, r \in RetryCounts : CreateJob(t, r, 1)
    \/ \E t \in JobTypes : RegisterHandler(TheWorker, t)
    \/ PollNextJob(TheWorker)
    \/ NoHandler(TheWorker)
    \/ StartHandler(TheWorker, TRUE)
    \/ LoadSource(TheWorker)
    \/ handleJobFailure(TheWorker)

SpecBudget == Init /\ [][NextBudget]_vars

TypeOK ==
    /\ Len(jobs) <= MaxJobs
    /\ Len(sources) <= MaxSources
    /\ \A w \in Workers : pc[w] \in {"idle", "fetched", "handling",
                                     "transcribing", "returned"}

\* ------------------------------------------------------------- asr: tokens

\* Times are in milliseconds.  The inputs lie on a grid of Tick ms.
Tick == 100

\* Code points of the recognised text
Chars == {"a", "b"}

\* Token{Text, StartTime, Duration}
Token(text, startTime, duration) ==
    [Text |-> text, StartTime |-> startTime, Duration |-> duration]

\* the sequences over S of length at most n
SeqsUpTo(S, n) == UNION {[1..k -> S] : k \in 0..n}

\* ------------------------------------------------ asr: MergeTokens (partial.go)

\* for _, token := range original { if token.StartTime < startTime ... }
RECURSIVE TokensBefore(_, _)
TokensBefore(tokens, startTime) ==
    IF tokens = <<>> THEN <<>>
    ELSE LET rest == TokensBefore(Tail(tokens), startTime) IN
         IF Head(tokens).StartTime < startTime
           THEN <<Head(tokens)>> \o rest ELSE rest

\* the tokens that start after the range, without the one that starts at its end
RECURSIVE TokensAfter(_, _)
TokensAfter(tokens, endTime) ==
    IF tokens = <<>> THEN <<>>
    ELSE LET rest == TokensAfter(Tail(tokens), endTime) IN
         IF Head(tokens).StartTime > endTime
           THEN <<Head(tokens)>> \o rest ELSE rest

\* for _, token := range original { if token.StartTime >= endTime ... }
RECURSIVE TokensFrom(_, _)
TokensFrom(tokens, endTime) ==
    IF tokens = <<>> THEN <<>>
    ELSE LET rest == TokensFrom(Tail(tokens), endTime) IN
         IF Head(tokens).StartTime >= endTime
           THEN <<Head(tokens)>> \o rest ELSE rest

\* the replacement tokens put after the kept ones
MergeTokensAppended(original, replacement, startTime, endTime) ==
    TokensBefore(original, startTime) \o TokensFrom(original, endTime)
        \o replacement

MergeTokens(original, replacement, startTime, endTime) ==
    TokensBefore(original, startTime) \o replacement
        \o TokensFrom(original, endTime)

\* MergeTokens applied to any token lists and any range with start < end
MergeTimes == {k * Tick : k \in 0..MaxTime}

OriginalTokens == {Token("a", t, Tick) : t \in MergeTimes}

ReplacementTokens == {Token("b", t, 0) : t \in MergeTimes}

InitMergeTokens ==
    /\ InitJobs
    /\ transcript = Nil
    /\ ret = Nil
    /\ \E T \in SeqsUpTo(OriginalTokens, MaxTokens),
          R \in SeqsUpTo(ReplacementTokens, MaxTokens - 1),
          s \in MergeTimes, e \in MergeTimes :
          /\ s < e
          /\ args = [original |-> T, replacement |-> R,
                     startTime |-> s, endTime |-> e]

CallMergeTokens ==
    /\ ret = Nil
    /\ ret' = Ptr(MergeTokens(args.original, args.replacement,
                              args.startTime, args.endTime))
    /\ UNCHANGED <<jobVars, transcript, args>>

NextMergeTokens == CallMergeTokens

SpecMergeTokens == InitMergeTokens /\ [][NextMergeTokens]_vars

\* ------------------------------------------------------ asr: block splitting

Second == 1000

Min(a, b) == IF a < b THEN a ELSE b

\* SpeechBlock{StartTime, EndTime}
SpeechBlock(startTime, endTime) ==
    [StartTime |-> startTime, EndTime |-> endTime]

\* splitLongBlocks, the loop "for start < block.EndTime" without the cap of
\* end at block.EndTime
RECURSIVE ChunksUncapped(_, _, _)
ChunksUncapped(start, blockEnd, maxDuration) ==
    IF start < blockEnd
      THEN <<SpeechBlock(start, start + maxDuration)>>
              \o ChunksUncapped(start + maxDuration, blockEnd, maxDuration)
      ELSE <<>>

\* splitLongBlocks, the loop "for start < block.EndTime"
RECURSIVE Chunks(_, _, _)
Chunks(start, blockEnd, maxDuration) ==
    IF start < blockEnd
      THEN LET end == Min(start + maxDuration, blockEnd) IN
           <<SpeechBlock(start, end)>> \o Chunks(end, blockEnd, maxDuration)
      ELSE <<>>

RECURSIVE splitLongBlocks(_, _)
splitLongBlocks(blocks, maxDuration) ==
    IF maxDuration <= 0 THEN blocks
    ELSE IF blocks = <<>> THEN <<>>
    ELSE LET block == Head(blocks)
             duration == block.EndTime - block.StartTime
         IN  (IF duration <= maxDuration
                THEN <<block>>
                ELSE Chunks(block.StartTime, block.EndTime, maxDuration))
             \o splitLongBlocks(Tail(blocks), maxDuration)

\* OverlapBlock{SpeechBlock, MainStart, MainEnd}
OverlapBlock(startTime, endTime, mainStart, mainEnd) ==
    [StartTime |-> startTime, EndTime |-> endTime,
     MainStart |-> mainStart, MainEnd |-> mainEnd]

\* splitLongBlocksWithOverlap: the defaults taken when an argument is <= 0
DefaultMaxDuration == 2000
DefaultOverlap == 500

EffectiveMaxDuration(maxDuration) ==
    IF maxDuration <= 0 THEN DefaultMaxDuration ELSE maxDuration

EffectiveOverlap(overlap) ==
    IF overlap <= 0 THEN DefaultOverlap ELSE overlap

\* mainDuration := maxDuration
MainDurationWhole(maxDuration, overlap) == maxDuration

\* mainDuration := maxDuration - overlap
MainDuration(maxDuration, overlap) == maxDuration - overlap

\* splitLongBlocksWithOverlap, the loop "for start < block.EndTime"
RECURSIVE OverlapChunks(_, _, _, _)
OverlapChunks(start, blockEnd, maxDuration, mainDuration) ==
    IF start < blockEnd
      THEN LET end == Min(start + maxDuration, blockEnd)
               mainEnd == Min(start + mainDuration, blockEnd)
           IN  <<OverlapBlock(start, end, start, mainEnd)>>
                  \o OverlapChunks(mainEnd, blockEnd, maxDuration, mainDuration)
      ELSE <<>>

\* splitLongBlocksWithOverlap, the body of the loop over the blocks
OverlapBlocksOf(block, maxDuration, overlap) ==
    IF block.EndTime - block.StartTime <= maxDuration
      THEN <<OverlapBlock(block.StartTime, block.EndTime,
                          block.StartTime, block.EndTime)>>
      ELSE OverlapChunks(block.StartTime, block.EndTime, maxDuration,
                         MainDuration(maxDuration, overlap))

RECURSIVE OverlapBlocksOfAll(_, _, _)
OverlapBlocksOfAll(blocks, maxDuration, overlap) ==
    IF blocks = <<>> THEN <<>>
    ELSE OverlapBlocksOf(Head(blocks), maxDuration, overlap)
            \o OverlapBlocksOfAll(Tail(blocks), maxDuration, overlap)

splitLongBlocksWithOverlap(blocks, maxDuration, overlap) ==
    OverlapBlocksOfAll(blocks, EffectiveMaxDuration(maxDuration),
                       EffectiveOverlap(overlap))

\* The block lists the detectors return: blocks of positive length, in
\* ascending order, none starting before the one before it ends
BlockTimes == {k * Second : k \in 0..MaxBlockEnd}

Blocks == {b \in [StartTime : BlockTimes, EndTime : BlockTimes] :
              b.StartTime < b.EndTime}

BlockLists ==
    { blocks \in SeqsUpTo(Blocks, MaxBlocks) :
         \A i \in DOMAIN blocks :
            i > 1 => blocks[i - 1].EndTime <= blocks[i].StartTime }

\* max_block and overlap as configured, 0 standing for "not set".  The code
\* does not terminate when the overlap is not below max_block, so those
\* configurations are left out.
SplitConfigs ==
    { c \in [maxDuration : {k * Second : k \in 0..MaxSplit},
             overlap : {k * Second : k \in 0..MaxSplit}] :
         EffectiveOverlap(c.overlap) < EffectiveMaxDuration(c.maxDuration) }

InitSplit ==
    /\ InitJobs
    /\ transcript = Nil
    /\ ret = Nil
    /\ \E blocks \in BlockLists, c \in SplitConfigs :
          args = [blocks |-> blocks, maxDuration |-> c.maxDuration,
                  overlap |-> c.overlap]

CallSplitLongBlocks ==
    /\ ret = Nil
    /\ ret' = Ptr([fn |-> "splitLongBlocks",
                   blocks |-> splitLongBlocks(args.blocks, args.maxDuration)])
    /\ UNCHANGED <<jobVars, transcript, args>>

CallSplitLongBlocksWithOverlap ==
    /\ ret = Nil
    /\ ret' = Ptr([fn |-> "splitLongBlocksWithOverlap",
                   blocks |-> splitLongBlocksWithOverlap(
                                 args.blocks, args.maxDuration, args.overlap)])
    /\ UNCHANGED <<jobVars, transcript, args>>

NextSplit ==
    \/ CallSplitLongBlocks
    \/ CallSplitLongBlocksWithOverlap

SpecSplit == InitSplit /\ [][NextSplit]_vars

\* splitLongBlocksWithOverlap step by step.  The pairs (max_block, overlap)
\* are those of the grid with overlap <= max_block; with overlap = max_block
\* start does not move, and with a larger overlap it would move backwards
\* without bound.  The result is recorded up to MaxPieces entries, more
\* than any call that returns appends.
LoopConfigs ==
    { c \in [maxDuration : {k * Second : k \in 0..MaxSplit},
             overlap : {k * Second : k \in 0..MaxSplit}] :
         EffectiveOverlap(c.overlap) <= EffectiveMaxDuration(c.maxDuration) }

MaxPieces == 2 * MaxBlockEnd + 1

Recorded(result, piece) ==
    IF Len(result) < MaxPieces THEN Append(result, piece) ELSE result

InitSplitLoop ==
    /\ InitJobs
    /\ transcript = Nil
    /\ ret = Nil
    /\ \E blocks \in BlockLists, c \in LoopConfigs :
          args = [blocks |-> blocks, maxDuration |-> c.maxDuration,
                  overlap |-> c.overlap]

\* the defaults and "var result []OverlapBlock"
SplitStart ==
    /\ ret = Nil
    /\ ret' = Ptr([pc |-> "blocks", k |-> 1, start |-> 0, result |-> <<>>,
                   maxDuration |-> EffectiveMaxDuration(args.maxDuration),
                   overlap |-> EffectiveOverlap(args.overlap)])
    /\ UNCHANGED <<jobVars, transcript, args>>

\* "for _, block := range blocks": a block that needs no split is appended,
\* a longer one enters the loop over its chunks
SplitBlock ==
    /\ ret # Nil
    /\ Deref(ret).pc = "blocks"
    /\ Deref(ret).k <= Len(args.blocks)
    /\ LET loc == Deref(ret)
           block == args.blocks[loc.k]
       IN  ret' = Ptr(
              IF block.EndTime - block.StartTime <= loc.maxDuration
                THEN [loc EXCEPT
                        !.k = @ + 1,
                        !.result = Recorded(@,
                           OverlapBlock(block.StartTime, block.EndTime,
                                        block.StartTime, block.EndTime))]
                ELSE [loc EXCEPT !.pc = "chunks", !.start = block.StartTime])
    /\ UNCHANGED <<jobVars, transcript, args>>

\* the test of "for start < block.EndTime"
SplitChunk ==
    /\ ret # Nil
    /\ Deref(ret).pc = "chunks"
    /\ LET loc == Deref(ret)
           block == args.blocks[loc.k]
       IN  ret' = Ptr(
              IF loc.start < block.EndTime
                THEN [loc EXCEPT !.pc = "chunk"]
                ELSE [loc EXCEPT !.pc = "blocks", !.k = @ + 1])
    /\ UNCHANGED <<jobVars, transcript, args>>

\* the body of "for start < block.EndTime": the chunk is appended and the
\* next one starts at mainEnd
SplitChunkBody ==
    /\ ret # Nil
    /\ Deref(ret).pc = "chunk"
    /\ LET loc == Deref(ret)
           block == args.blocks[loc.k]
           start == loc.start
           end == Min(start + loc.maxDuration, block.EndTime)
           mainEnd == Min(start + MainDuration(loc.maxDuration, loc.overlap),
                          block.EndTime)
       IN  ret' = Ptr([loc EXCEPT
                         !.pc = "chunks",
                         !.result = Recorded(@,
                            OverlapBlock(start, end, start, mainEnd)),
                         !.start = mainEnd])
    /\ UNCHANGED <<jobVars, transcript, args>>

\* "return result"
SplitReturn ==
    /\ ret # Nil
    /\ Deref(ret).pc = "blocks"
    /\ Deref(ret).k > Len(args.blocks)
    /\ ret' = Ptr([Deref(ret) EXCEPT !.pc = "returned"])
    /\ UNCHANGED <<jobVars, transcript, args>>

NextSplitLoop ==
    \/ SplitStart
    \/ SplitBlock
    \/ SplitChunk
    \/ SplitChunkBody
    \/ SplitReturn

SpecSplitLoop == InitSplitLoop /\ [][NextSplitLoop]_vars

\* a call that has started keeps executing
SpecSplitLoopLive == SpecSplitLoop /\ WF_vars(NextSplitLoop)

\* ---------------------------------------------------- asr: silence detector

\* DefaultSilenceConfig: FrameSize samples per frame, at the recogniser's
\* sample rate; MaxBlockDuration in ms
FrameSize == 480
SampleRate == 16000
DefaultMaxBlockDuration == 5000

\* frameDuration := float64(config.FrameSize) / float64(sampleRate), in ms
FrameDuration == (FrameSize * 1000) \div SampleRate

\* RMS values are in thousandths of full scale
IsSilent(rms, threshold) == rms < threshold

\* speechEnd := i
SpeechEndAtFrame(i, silenceCount) == i

\* speechEnd := i - silenceCount + 1
SpeechEnd(i, silenceCount) == i - silenceCount + 1

\* the locals with inSpeech := true
DetectLocalsInSpeech(config) ==
    [ pc |-> "frames", i |-> 0,
      minSilenceFrames |-> config.MinSilenceDuration \div FrameDuration,
      minSpeechFrames |-> config.MinSpeechDuration \div FrameDuration,
      blocks |-> <<>>, inSpeech |-> TRUE, speechStart |-> 0,
      silenceCount |-> 0 ]

\* the locals of detectSpeechBlocksBySilence before the loop over the
\* frames; i is the 0-based index of the next frame
DetectLocals(config) ==
    [ pc |-> "frames", i |-> 0,
      minSilenceFrames |-> config.MinSilenceDuration \div FrameDuration,
      minSpeechFrames |-> config.MinSpeechDuration \div FrameDuration,
      blocks |-> <<>>, inSpeech |-> FALSE, speechStart |-> 0,
      silenceCount |-> 0 ]

\* one iteration of "for i, rms := range frames"
FrameStep(loc, rms, threshold) ==
    LET i == loc.i
        next == [loc EXCEPT !.i = i + 1]
    IN
    IF ~loc.inSpeech
      THEN IF ~IsSilent(rms, threshold)
             THEN [next EXCEPT !.inSpeech = TRUE, !.speechStart = i,
                               !.silenceCount = 0]
             ELSE next
      ELSE IF IsSilent(rms, threshold)
             THEN LET silenceCount == loc.silenceCount + 1 IN
                  IF silenceCount >= loc.minSilenceFrames
                    THEN LET speechEnd == SpeechEnd(i, silenceCount) IN
                         [next EXCEPT
                            !.blocks =
                               IF speechEnd - loc.speechStart >= loc.minSpeechFrames
                                 THEN Append(@, SpeechBlock(
                                         loc.speechStart * FrameDuration,
                                         speechEnd * FrameDuration))
                                 ELSE @,
                            !.inSpeech = FALSE,
                            !.silenceCount = 0]
                    ELSE [next EXCEPT !.silenceCount = silenceCount]
             ELSE [next EXCEPT !.silenceCount = 0]

\* after the loop without "Handle speech at end of audio"
AfterFramesOpenDropped(loc, nframes, maxBlockDuration) ==
    [loc EXCEPT !.pc = "returned",
                !.blocks = splitLongBlocks(loc.blocks, maxBlockDuration)]

\* after the loop: speech at the end of the audio, then splitLongBlocks
AfterFrames(loc, nframes, maxBlockDuration) ==
    LET speechEnd == nframes
        blocks == IF loc.inSpeech
                       /\ speechEnd - loc.speechStart >= loc.minSpeechFrames
                    THEN Append(loc.blocks, SpeechBlock(
                            loc.speechStart * FrameDuration,
                            speechEnd * FrameDuration))
                    ELSE loc.blocks
    IN  [loc EXCEPT !.pc = "returned",
                    !.blocks = splitLongBlocks(blocks, maxBlockDuration)]

\* RMS traces: silence, a frame exactly at the threshold, speech
Threshold == 100
RmsLevels == {0, Threshold, 200}

\* the trace of scenario S1
TraceS1 ==
    <<0, 0, 0, 200, 200, 200, 0, 0, 0, 200, 200, 0, 0, 0, 0, 0, 0, 0, 0, 0>>

MinSilenceDurations == {20, 60, 90}
MinSpeechDurations == {30, 60, 100}

InitSilence ==
    /\ InitJobs
    /\ transcript = Nil
    /\ ret = Nil
    /\ \E frames \in SeqsUpTo(RmsLevels, MaxFrames) \cup {TraceS1},
          msil \in MinSilenceDurations, msp \in MinSpeechDurations :
          /\ frames # <<>>
          /\ args = [frames |-> frames,
                     config |-> [SilenceThreshold |-> Threshold,
                                 MinSilenceDuration |-> msil,
                                 MinSpeechDuration |-> msp,
                                 MaxBlockDuration |-> DefaultMaxBlockDuration]]

\* detectSpeechBlocksBySilence from "Convert frames to speech blocks"
DetectStart ==
    /\ ret = Nil
    /\ ret' = Ptr(DetectLocals(args.config))
    /\ UNCHANGED <<jobVars, transcript, args>>

DetectFrame ==
    /\ ret # Nil
    /\ Deref(ret).pc = "frames"
    /\ Deref(ret).i < Len(args.frames)
    /\ ret' = Ptr(FrameStep(Deref(ret), args.frames[Deref(ret).i + 1],
                            args.config.SilenceThreshold))
    /\ UNCHANGED <<jobVars, transcript, args>>

DetectReturn ==
    /\ ret # Nil
    /\ Deref(ret).pc = "frames"
    /\ Deref(ret).i = Len(args.frames)
    /\ ret' = Ptr(AfterFrames(Deref(ret), Len(args.frames),
                              args.config.MaxBlockDuration))
    /\ UNCHANGED <<jobVars, transcript, args>>

NextSilence ==
    \/ DetectStart
    \/ DetectFrame
    \/ DetectReturn

SpecSilence == InitSilence /\ [][NextSilence]_vars

\* ------------------------------------------------------ asr: LCS alignment

\* a string is the sequence of its runes
Runes == {"a", "i", "u"}

MaxOf(S) == CHOOSE x \in S : \A y \in S : y <= x
MinOf(S) == CHOOSE x \in S : \A y \in S : x <= y

\* the runes of the tokens' texts, in order
RECURSIVE OriginalRunes(_)
OriginalRunes(tokens) ==
    IF tokens = <<>> THEN <<>>
    ELSE Head(tokens).Text \o OriginalRunes(Tail(tokens))

\* each rune taken for a token of its own
RuneToTokenByRune(tokens, i) ==
    [k \in 1..Len(OriginalRunes(tokens)) |-> i + k - 1]

\* runeToToken: for each rune index the (0-based) index of its token
RECURSIVE RuneToToken(_, _)
RuneToToken(tokens, i) ==
    IF tokens = <<>> THEN <<>>
    ELSE [k \in 1..Len(Head(tokens).Text) |-> i] \o RuneToToken(Tail(tokens), i + 1)

\* the DP table as make() leaves it, not filled
LCSUnfilled(original, whisper, i, j) == 0

\* dp[i][j] of computeAlignment: the length of the longest common
\* subsequence of original[:i] and whisper[:j]
RECURSIVE LCS(_, _, _, _)
LCS(original, whisper, i, j) ==
    IF i = 0 \/ j = 0 THEN 0
    ELSE IF original[i] = whisper[j]
      THEN LCS(original, whisper, i - 1, j - 1) + 1
      ELSE LET up == LCS(original, whisper, i - 1, j)
               left == LCS(original, whisper, i, j - 1)
           IN  IF up >= left THEN up ELSE left

\* the backtrack of computeAlignment from (i, j), already reversed
RECURSIVE Backtrack(_, _, _, _)
Backtrack(original, whisper, i, j) ==
    IF i = 0 /\ j = 0 THEN <<>>
    ELSE IF i > 0 /\ j > 0 /\ original[i] = whisper[j]
      THEN Append(Backtrack(original, whisper, i - 1, j - 1),
                  [op |-> "match", origIdx |-> i - 1, whisperIdx |-> j - 1,
                   whisperRune |-> whisper[j]])
    ELSE IF j > 0 /\ (i = 0 \/ LCS(original, whisper, i, j - 1)
                                  >= LCS(original, whisper, i - 1, j))
      THEN Append(Backtrack(original, whisper, i, j - 1),
                  [op |-> "insert", origIdx |-> -1, whisperIdx |-> j - 1,
                   whisperRune |-> whisper[j]])
    ELSE Append(Backtrack(original, whisper, i - 1, j),
                [op |-> "delete", origIdx |-> i - 1, whisperIdx |-> -1,
                 whisperRune |-> ""])

computeAlignment(original, whisper) ==
    Backtrack(original, whisper, Len(original), Len(whisper))

\* index of the last anchor at or before whisperIdx, 0 for nil
PrevAnchor(whisperIdx, anchors) ==
    LET S == {k \in DOMAIN anchors : anchors[k].whisperIdx <= whisperIdx}
    IN  IF S = {} THEN 0 ELSE MaxOf(S)

\* index of the first anchor at or after whisperIdx, 0 for nil
NextAnchor(whisperIdx, anchors) ==
    LET S == {k \in DOMAIN anchors : anchors[k].whisperIdx >= whisperIdx}
    IN  IF S = {} THEN 0 ELSE MinOf(S)

\* times are fixed-point milliseconds, so a quotient is rounded down where
\* the code keeps a float32
interpolateTimestamp(whisperIdx, anchors) ==
    LET n == Len(anchors)
        p == PrevAnchor(whisperIdx, anchors)
        x == NextAnchor(whisperIdx, anchors)
    IN
    IF n = 0 THEN 0
    ELSE IF p # 0 /\ anchors[p].whisperIdx = whisperIdx THEN anchors[p].time
    ELSE IF x = 0 /\ p # 0
      THEN IF n >= 2 /\ anchors[n].whisperIdx > anchors[n - 1].whisperIdx
             THEN anchors[n].time
                    + ((anchors[n].time - anchors[n - 1].time)
                         * (whisperIdx - anchors[n].whisperIdx))
                      \div (anchors[n].whisperIdx - anchors[n - 1].whisperIdx)
             ELSE anchors[p].time + anchors[p].duration
    ELSE IF p = 0 /\ x # 0
      THEN IF n >= 2 /\ anchors[2].whisperIdx > anchors[1].whisperIdx
             THEN anchors[1].time
                    - ((anchors[2].time - anchors[1].time)
                         * (anchors[1].whisperIdx - whisperIdx))
                      \div (anchors[2].whisperIdx - anchors[1].whisperIdx)
             ELSE anchors[x].time
    ELSE IF p # 0 /\ x # 0
      THEN IF anchors[p].whisperIdx = anchors[x].whisperIdx
             THEN anchors[p].time
             ELSE anchors[p].time
                    + ((whisperIdx - anchors[p].whisperIdx)
                         * (anchors[x].time - anchors[p].time))
                      \div (anchors[x].whisperIdx - anchors[p].whisperIdx)
    ELSE 0

RECURSIVE TotalDuration(_)
TotalDuration(anchors) ==
    IF anchors = <<>> THEN 0
    ELSE Head(anchors).duration + TotalDuration(Tail(anchors))

DefaultCharDuration == 100
CappedCharDuration == 300

estimateDuration(whisperIdx, anchors, totalChars) ==
    IF Len(anchors) = 0 \/ totalChars = 0 THEN DefaultCharDuration
    ELSE LET avgDuration == TotalDuration(anchors) \div Len(anchors) IN
         IF avgDuration < 10 THEN DefaultCharDuration
         ELSE IF avgDuration > 1000 THEN CappedCharDuration
         ELSE avgDuration

distributeUniformly(runes, startTime, endTime) ==
    LET duration == endTime - startTime IN
    [k \in 1..Len(runes) |->
        Token(<<runes[k]>>, startTime + ((k - 1) * duration) \div Len(runes),
              duration \div Len(runes))]

\* first pass of buildAlignedTokens: the anchors of the matched characters
Anchors(originalTokens, runeToToken, alignment) ==
    LET IsAnchor(e) == e.op = "match" /\ e.origIdx >= 0
                          /\ e.origIdx < Len(runeToToken)
                          /\ runeToToken[e.origIdx + 1] < Len(originalTokens)
        AnchorOf(e) ==
            [whisperIdx |-> e.whisperIdx,
             time |-> originalTokens[runeToToken[e.origIdx + 1] + 1].StartTime,
             duration |-> originalTokens[runeToToken[e.origIdx + 1] + 1].Duration]
        matched == SelectSeq(alignment, IsAnchor)
    IN  [k \in 1..Len(matched) |-> AnchorOf(matched[k])]

buildAlignedTokens(originalTokens, runeToToken, whisperRunes, alignment) ==
    LET anchors == Anchors(originalTokens, runeToToken, alignment)
        Kept(e) == e.op # "delete"
        kept == SelectSeq(alignment, Kept)
        last == originalTokens[Len(originalTokens)]
    IN
    IF Len(alignment) = 0 THEN <<>>
    ELSE IF Len(anchors) = 0
      THEN IF Len(originalTokens) = 0 THEN <<>>
           ELSE distributeUniformly(whisperRunes, originalTokens[1].StartTime,
                                    last.StartTime + last.Duration)
    ELSE [k \in 1..Len(kept) |->
            Token(<<kept[k].whisperRune>>,
                  interpolateTimestamp(kept[k].whisperIdx, anchors),
                  estimateDuration(kept[k].whisperIdx, anchors,
                                   Len(whisperRunes)))]

AlignTokensWithText(originalTokens, whisperText) ==
    IF Len(originalTokens) = 0 \/ whisperText = <<>> THEN <<>>
    ELSE buildAlignedTokens(originalTokens, RuneToToken(originalTokens, 0),
                            whisperText,
                            computeAlignment(OriginalRunes(originalTokens),
                                             whisperText))

\* the original tokens handed to the alignment: one or two runes each
AlignTokens ==
    {Token(text, t, 2 * Tick) :
        text \in {<<"a">>, <<"u">>, <<"a", "u">>}, t \in MergeTimes}

InitAlign ==
    /\ InitJobs
    /\ transcript = Nil
    /\ ret = Nil
    /\ \E originalTokens \in SeqsUpTo(AlignTokens, MaxAlignTokens),
          whisperText \in SeqsUpTo(Runes, MaxRunes) :
          args = [originalTokens |-> originalTokens,
                  whisperText |-> whisperText]

CallAlignTokensWithText ==
    /\ ret = Nil
    /\ ret' = Ptr(AlignTokensWithText(args.originalTokens, args.whisperText))
    /\ UNCHANGED <<jobVars, transcript, args>>

NextAlign == CallAlignTokensWithText

SpecAlign == InitAlign /\ [][NextAlign]_vars

\* computeAlignment on its own, over all pairs of rune sequences
InitLCS ==
    /\ InitJobs
    /\ transcript = Nil
    /\ ret = Nil
    /\ \E original \in SeqsUpTo(Runes, MaxRunes),
          whisper \in SeqsUpTo(Runes, MaxRunes) :
          args = [original |-> original, whisper |-> whisper]

CallComputeAlignment ==
    /\ ret = Nil
    /\ ret' = Ptr([alignment |-> computeAlignment(args.original, args.whisper)])
    /\ UNCHANGED <<jobVars, transcript, args>>

NextLCS == CallComputeAlignment

SpecLCS == InitLCS /\ [][NextLCS]_vars

\* the anchors handed to estimateDuration: durations from 0 to 1.2 s
AnchorDurations == {0, 5, 50, 100, 200, 300, 500, 1200}

AnchorsOf(durations) ==
    [k \in DOMAIN durations |->
        [whisperIdx |-> k - 1, time |-> (k - 1) * Tick,
         duration |-> durations[k]]]

InitEstimate ==
    /\ InitJobs
    /\ transcript = Nil
    /\ ret = Nil
    /\ \E durations \in SeqsUpTo(AnchorDurations, MaxAnchors),
          totalChars \in 0..MaxRunes :
          args = [whisperIdx |-> 0, anchors |-> AnchorsOf(durations),
                  totalChars |-> totalChars]

CallEstimateDuration ==
    /\ ret = Nil
    /\ ret' = Ptr(estimateDuration(args.whisperIdx, args.anchors,
                                   args.totalChars))
    /\ UNCHANGED <<jobVars, transcript, args>>

NextEstimate == CallEstimateDuration

SpecEstimate == InitEstimate /\ [][NextEstimate]_vars

\* --------------------------------------- asr: segments and partial merges

Segment(text, startTime, endTime) ==
    [Text |-> text, StartTime |-> startTime, EndTime |-> endTime]

\* tokensToSegments starts a new segment after a gap of more than 0.5 s
gapThreshold == 500

\* the tokens of each segment tokensToSegments builds: the loop's
\* currentText is the text of the last group, lastEnd the end of the token
\* before tokens[i]
RECURSIVE TokenGroups(_, _, _, _)
TokenGroups(tokens, i, groups, lastEnd) ==
    IF i > Len(tokens) THEN groups
    ELSE LET token == tokens[i]
             tokenEnd == token.StartTime + token.Duration
         IN  IF i = 1
               THEN TokenGroups(tokens, i + 1, <<<<token>>>>, tokenEnd)
             ELSE IF token.StartTime - lastEnd > gapThreshold
               THEN TokenGroups(tokens, i + 1, Append(groups, <<token>>), tokenEnd)
             ELSE TokenGroups(tokens, i + 1,
                      [groups EXCEPT ![Len(groups)] = Append(@, token)],
                      tokenEnd)

RebuildTextFromTokens(tokens) == OriginalRunes(tokens)

SegmentOfGroup(group) ==
    Segment(RebuildTextFromTokens(group), group[1].StartTime,
            group[Len(group)].StartTime + group[Len(group)].Duration)

tokensToSegments(tokens) ==
    LET groups == TokenGroups(tokens, 1, <<>>, 0)
        segments == [k \in DOMAIN groups |-> SegmentOfGroup(groups[k])]
    IN  IF Len(tokens) = 0 THEN <<>>
        ELSE IF segments[Len(segments)].Text # <<>> THEN segments
        ELSE SubSeq(segments, 1, Len(segments) - 1)

\* Tempo is in thousandths
transcribeBlock(block, tempo, recognised) ==
    LET duration == block.EndTime - block.StartTime IN
    IF duration <= 0 THEN <<>>
    ELSE IF (duration * 1000) \div tempo < 100 THEN <<>>
    ELSE [k \in DOMAIN recognised |->
            Token(recognised[k].Text,
                  block.StartTime + (recognised[k].StartTime * tempo) \div 1000,
                  (recognised[k].Duration * tempo) \div 1000)]

\* "only keep those in the main portion"
MainPortion(tokens, block) ==
    LET InMain(token) == token.StartTime >= block.MainStart
                            /\ token.StartTime < block.MainEnd
    IN  SelectSeq(tokens, InMain)

RECURSIVE OverlapTokens(_, _, _, _)
OverlapTokens(overlapBlocks, tempo, recognised, i) ==
    IF i > Len(overlapBlocks) THEN <<>>
    ELSE MainPortion(transcribeBlock(SpeechBlock(overlapBlocks[i].StartTime,
                                                 overlapBlocks[i].EndTime),
                                     tempo, recognised[i]),
                     overlapBlocks[i])
           \o OverlapTokens(overlapBlocks, tempo, recognised, i + 1)

\* "If first detected block starts late, extend it to start from 0"
ExtendFirst(blocks) ==
    IF Len(blocks) > 0 /\ blocks[1].StartTime > 500
      THEN [blocks EXCEPT ![1].StartTime = 0]
      ELSE blocks

Result(tokens, segments) == [Tokens |-> tokens, Segments |-> segments]

\* TranscribeWithOverlap after the silence detection returned blocks;
\* recognised[i] is what the recogniser returns for the i-th block
TranscribeWithOverlap(blocks, maxBlockDuration, tempo, overlap, recognised) ==
    IF Len(blocks) = 0 THEN Result(<<>>, <<>>)
    ELSE LET overlapBlocks == splitLongBlocksWithOverlap(ExtendFirst(blocks),
                                  maxBlockDuration, EffectiveOverlap(overlap))
             allTokens == OverlapTokens(overlapBlocks, tempo, recognised, 1)
         IN  Result(allTokens, tokensToSegments(allTokens))

\* TranscribePartial: the window is one recogniser chunk
TranscribePartial(opts, recognised) ==
    [k \in DOMAIN recognised |->
        Token(recognised[k].Text,
              opts.StartTime + (recognised[k].StartTime * opts.Tempo) \div 1000,
              (recognised[k].Duration * opts.Tempo) \div 1000)]

\* MergeSegments counts a token at the end of the last segment within 10 ms
EdgeTolerance == 10

\* every replacement token from the segment's start on
SegmentTokensOpen(seg, newTokens, last) ==
    LET Within(token) == token.StartTime >= seg.StartTime
    IN  SelectSeq(newTokens, Within)

\* the replacement tokens MergeSegments counts in segment seg
SegmentTokens(seg, newTokens, last) ==
    LET Within(token) == token.StartTime >= seg.StartTime
                            /\ token.StartTime < seg.EndTime
        AtEdge(token) == token.StartTime >= seg.EndTime
                            /\ token.StartTime <= seg.EndTime + EdgeTolerance
    IN  SelectSeq(newTokens, Within)
          \o (IF last THEN SelectSeq(newTokens, AtEdge) ELSE <<>>)

\* startIdx and endIdx are 0-based, as in the request
MergeSegments(original, startIdx, endIdx, newTokens) ==
    [i \in 1..Len(original) |->
        IF i - 1 >= startIdx /\ i - 1 <= endIdx
          THEN Segment(RebuildTextFromTokens(
                          SegmentTokens(original[i], newTokens, i - 1 = endIdx)),
                       original[i].StartTime, original[i].EndTime)
          ELSE original[i]]

\* total duration of the target segments (excluding gaps)
RECURSIVE RangeDuration(_, _, _)
RangeDuration(segments, i, endIdx) ==
    IF i > endIdx \/ i >= Len(segments) THEN 0
    ELSE LET duration == segments[i + 1].EndTime - segments[i + 1].StartTime
         IN  (IF duration > 0 THEN duration ELSE 0)
               + RangeDuration(segments, i + 1, endIdx)

MaxInt(a, b) == IF a > b THEN a ELSE b

\* the loop "Distribute tokens proportionally to segment duration" from
\* segment i on: the adjusted tokens and the rebuilt segments
RECURSIVE RatioDistribute(_, _, _, _, _, _)
RatioDistribute(segments, i, endIdx, newTokens, tokenIndex, totalDuration) ==
    IF i > endIdx \/ i >= Len(segments) THEN Result(<<>>, <<>>)
    ELSE
      LET seg == segments[i + 1]
          duration == seg.EndTime - seg.StartTime
          tokenCount ==
              IF i = endIdx THEN Len(newTokens) - tokenIndex
              ELSE (Len(newTokens) * duration) \div totalDuration
          taken == IF totalDuration > 0 /\ duration > 0
                     THEN Min(MaxInt(tokenCount, 0), Len(newTokens) - tokenIndex)
                     ELSE 0
          segTokens == [j \in 1..taken |->
                          Token(newTokens[tokenIndex + j].Text,
                                seg.StartTime + (duration * (j - 1))
                                                  \div MaxInt(tokenCount, 1),
                                duration \div MaxInt(tokenCount, 1))]
          rest == RatioDistribute(segments, i + 1, endIdx, newTokens,
                                  tokenIndex + taken, totalDuration)
      IN  Result(segTokens \o rest.Tokens,
                 <<Segment(RebuildTextFromTokens(segTokens),
                           seg.StartTime, seg.EndTime)>> \o rest.Segments)

MergeSegmentsByRatio(original, startIdx, endIdx, newTokens) ==
    SubSeq(original, 1, Min(startIdx, Len(original)))
      \o RatioDistribute(original, startIdx, endIdx, newTokens, 0,
                         RangeDuration(original, startIdx, endIdx)).Segments
      \o SubSeq(original, endIdx + 2, Len(original))

MergeTokensBySegmentRatio(original, newTokens, segments, startIdx, endIdx, startTime, endTime) ==
    TokensBefore(original, startTime)
      \o RatioDistribute(segments, startIdx, endIdx, newTokens, 0,
                         RangeDuration(segments, startIdx, endIdx)).Tokens
      \o TokensFrom(original, endTime)

\* Step 1 of AlignTokensForSegmentsWithDiff: the original tokens of the
\* target segments, then those at the end boundary of the last one
SegmentTokensOf(originalTokens, segments, startIdx, endIdx) ==
    LET InRange(token) ==
            \E i \in startIdx..endIdx :
                /\ i < Len(segments)
                /\ token.StartTime >= segments[i + 1].StartTime
                /\ token.StartTime < segments[i + 1].EndTime
        AtEdge(token) ==
            /\ token.StartTime >= segments[endIdx + 1].EndTime
            /\ token.StartTime <= segments[endIdx + 1].EndTime + EdgeTolerance
    IN  SelectSeq(originalTokens, InRange)
          \o (IF endIdx < Len(segments)
                THEN SelectSeq(originalTokens, AtEdge) ELSE <<>>)

\* Step 4 from segment i on: the aligned tokens are moved into the target
\* segments by duration ratio
RECURSIVE AlignDistribute(_, _, _, _, _, _, _)
AlignDistribute(segments, startIdx, i, endIdx, alignedTokens, tokenIndex, totalDuration) ==
    IF i > endIdx \/ i >= Len(segments) THEN Result(<<>>, <<>>)
    ELSE
      LET seg == segments[i + 1]
          duration == seg.EndTime - seg.StartTime
          numSegments == Min(endIdx - startIdx + 1, Len(segments) - startIdx)
          remainingSegs == numSegments - (i - startIdx)
          remainingTokens == Len(alignedTokens) - tokenIndex
          byRatio == (Len(alignedTokens) * duration) \div totalDuration
          tokenCount ==
              IF i = endIdx THEN Len(alignedTokens) - tokenIndex
              ELSE IF totalDuration > 0 /\ duration > 0
                THEN IF byRatio = 0 /\ tokenIndex < Len(alignedTokens)
                       THEN 1 ELSE byRatio
              ELSE IF totalDuration = 0 \/ duration = 0
                THEN IF remainingSegs > 0 /\ remainingTokens > 0
                       THEN MaxInt(remainingTokens \div remainingSegs, 1)
                       ELSE 0
              ELSE 0
          taken == Min(MaxInt(tokenCount, 0), Len(alignedTokens) - tokenIndex)
          segTokens == [j \in 1..taken |->
                          Token(alignedTokens[tokenIndex + j].Text,
                                IF duration > 0 /\ tokenCount > 0
                                  THEN seg.StartTime + (duration * (j - 1))
                                                         \div tokenCount
                                  ELSE seg.StartTime,
                                duration \div MaxInt(tokenCount, 1))]
          rest == AlignDistribute(segments, startIdx, i + 1, endIdx,
                                  alignedTokens, tokenIndex + taken,
                                  totalDuration)
      IN  Result(segTokens \o rest.Tokens,
                 <<Segment(RebuildTextFromTokens(segTokens),
                           seg.StartTime, seg.EndTime)>> \o rest.Segments)

\* the Tokens and Segments of the AlignResult
AlignTokensForSegmentsWithDiff(originalTokens, whisperText, segments, startIdx, endIdx) ==
    LET segmentTokens == SegmentTokensOf(originalTokens, segments,
                                         startIdx, endIdx)
        alignedTokens == AlignTokensWithText(segmentTokens, whisperText)
    IN  IF Len(alignedTokens) = 0 THEN Result(<<>>, <<>>)
        ELSE AlignDistribute(segments, startIdx, startIdx, endIdx,
                             alignedTokens, 0,
                             RangeDuration(segments, startIdx, endIdx))

\* the source's audio file is three seconds long
AudioLength == 3 * Second
AudioTimes == {k * Second : k \in 0..3}

\* what one recogniser call can return for a stream of the given length:
\* tokens with non-negative, non-decreasing start times inside the stream
RecognisedTokens(length) ==
    {Token(<<"a">>, t, d) :
        t \in {t \in AudioTimes : t < length}, d \in {0, Second}}

Recognised(length) ==
    {r \in SeqsUpTo(RecognisedTokens(length), MaxCallTokens) :
        \A i \in DOMAIN r : i > 1 => r[i - 1].StartTime <= r[i].StartTime}

\* the speech blocks the silence detection can return for the audio
AudioBlockLists ==
    {blocks \in BlockLists :
        \A i \in DOMAIN blocks : blocks[i].EndTime <= AudioLength}

\* MaxBlockDuration and overlap as ProcessTranscription passes them, scaled
\* to the three seconds of audio: blocks of at most 2 s that overlap by 1 s
OverlapMaxBlockDuration == 2000
OverlapDuration == 1000

\* the recogniser's answers for every overlap block
RecognisedForBlocks(overlapBlocks, tempo) ==
    {r \in [DOMAIN overlapBlocks -> Recognised(AudioLength)] :
        \A i \in DOMAIN overlapBlocks :
            r[i] \in Recognised(((overlapBlocks[i].EndTime
                                    - overlapBlocks[i].StartTime) * 1000)
                                  \div tempo)}

InitPartial ==
    /\ InitJobs
    /\ transcript = Nil
    /\ args = Nil
    /\ ret = Nil

\* ProcessTranscription of a source with one audio file, overlap strategy:
\* the Result is saved as the transcription artifact
ProcessTranscription ==
    /\ transcript = Nil
    /\ \E blocks \in AudioBlockLists :
         \E recognised \in RecognisedForBlocks(
                 splitLongBlocksWithOverlap(ExtendFirst(blocks),
                     OverlapMaxBlockDuration, OverlapDuration), 1000) :
            /\ transcript' = Ptr(TranscribeWithOverlap(blocks,
                                    OverlapMaxBlockDuration, 1000,
                                    OverlapDuration, recognised))
            /\ args' = [fn |-> "TranscribeWithOverlap"]
            /\ ret' = Nil
    /\ UNCHANGED jobVars

ASRModelReazonSpeech == "reazonspeech"
ASRModelWhisper == "whisper"
ASRModelWhisperAlign == "whisper:align"
Models == {ASRModelReazonSpeech, ASRModelWhisper, ASRModelWhisperAlign}

\* "Validate tempo"
EffectiveTempo(tempo) ==
    LET t == IF tempo <= 0 \/ tempo > 1000 THEN 950 ELSE tempo
    IN  IF t < 500 THEN 500 ELSE t

RequestTempos == {1000}

\* the merged tokens and segments for the model of the request
Merged(result, model, partialTokens, startIdx, endIdx, startTime, endTime) ==
    IF model = ASRModelWhisperAlign
      THEN LET alignResult == AlignTokensForSegmentsWithDiff(result.Tokens,
                                  RebuildTextFromTokens(partialTokens),
                                  result.Segments, startIdx, endIdx)
           IN  Result(MergeTokens(result.Tokens, alignResult.Tokens,
                                  startTime, endTime),
                      SubSeq(result.Segments, 1, startIdx)
                        \o alignResult.Segments
                        \o SubSeq(result.Segments, endIdx + 2,
                                  Len(result.Segments)))
    ELSE IF model = ASRModelWhisper
      THEN Result(MergeTokensBySegmentRatio(result.Tokens, partialTokens,
                      result.Segments, startIdx, endIdx, startTime, endTime),
                  MergeSegmentsByRatio(result.Segments, startIdx, endIdx,
                                       partialTokens))
    ELSE Result(MergeTokens(result.Tokens, partialTokens, startTime, endTime),
                MergeSegments(result.Segments, startIdx, endIdx, partialTokens))

\* POST .../retranscribe: a request that passes the validation, whose time
\* range is not empty and that is not a preview; the other requests are
\* answered without saving anything
Retranscribe ==
    /\ transcript # Nil
    /\ Len(Deref(transcript).Tokens) <= MaxStoredTokens
    /\ \E model \in Models, tempo \in RequestTempos,
          startIdx, endIdx \in 0..(Len(Deref(transcript).Segments) - 1) :
         LET result == Deref(transcript)
             startTime == result.Segments[startIdx + 1].StartTime
             endTime == result.Segments[endIdx + 1].EndTime
             opts == [StartTime |-> startTime, EndTime |-> endTime,
                      Tempo |-> EffectiveTempo(tempo)]
         IN  /\ startIdx <= endIdx
             /\ endTime - startTime > 0
             /\ \E recognised \in
                     Recognised(((endTime - startTime) * 1000) \div opts.Tempo) :
                  LET partialTokens == TranscribePartial(opts, recognised)
                      merged == Merged(result, model, partialTokens,
                                       startIdx, endIdx, startTime, endTime)
                  IN  /\ args' = [fn |-> "Retranscribe",
                                  SegmentStart |-> startIdx,
                                  SegmentEnd |-> endIdx,
                                  Tempo |-> tempo, Model |-> model,
                                  Preview |-> FALSE]
                      /\ ret' = Ptr([partialResult |-> partialTokens])
                      /\ transcript' = Ptr(merged)
    /\ UNCHANGED jobVars

NextPartial ==
    \/ ProcessTranscription
    \/ Retranscribe

SpecPartial == InitPartial /\ [][NextPartial]_vars

\* Two Retranscribe handlers in flight for the same source.  A handler
\* reads the transcription artifact (GetBySourceID), recognises and merges
\* on its copy, and writes the whole content back (UpdateContent); no lock
\* or transaction spans the two repository calls.
Requests == {1, 2}

\* the transcripts ProcessTranscription can have stored
StoredTranscripts ==
    UNION { { TranscribeWithOverlap(blocks, OverlapMaxBlockDuration, 1000,
                                    OverlapDuration, recognised) :
                recognised \in RecognisedForBlocks(
                    splitLongBlocksWithOverlap(ExtendFirst(blocks),
                        OverlapMaxBlockDuration, OverlapDuration), 1000) } :
            blocks \in AudioBlockLists }

InitConcurrent ==
    /\ InitJobs
    /\ \E stored \in StoredTranscripts : transcript = Ptr(stored)
    /\ args = [r \in Requests |-> Nil]
    /\ ret = [r \in Requests |-> Nil]

\* Retranscribe up to "Get time range from segments": the request is bound,
\* the artifact is read and the segment indices are validated against it
RetranscribeRead(r) ==
    /\ args[r] = Nil
    /\ \E model \in Models, tempo \in RequestTempos,
          startIdx, endIdx \in 0..(Len(Deref(transcript).Segments) - 1) :
         LET result == Deref(transcript)
             startTime == result.Segments[startIdx + 1].StartTime
             endTime == result.Segments[endIdx + 1].EndTime
         IN  /\ startIdx <= endIdx
             /\ endTime - startTime > 0
             /\ args' = [args EXCEPT ![r] =
                            Ptr([SegmentStart |-> startIdx,
                                 SegmentEnd |-> endIdx,
                                 Tempo |-> tempo, Model |-> model,
                                 Preview |-> FALSE])]
             /\ ret' = [ret EXCEPT ![r] =
                           Ptr([pc |-> "read", transcript |-> result,
                                startTime |-> startTime, endTime |-> endTime,
                                writes |-> Cardinality({q \in Requests :
                                              /\ ret[q] # Nil
                                              /\ Deref(ret[q]).pc = "done"})])]
    /\ UNCHANGED <<jobVars, transcript>>

\* Retranscribe from the recognition to its return: the merge is computed
\* on the transcript that was read, and UpdateContent stores the result
RetranscribeWrite(r) ==
    /\ ret[r] # Nil
    /\ Deref(ret[r]).pc = "read"
    /\ LET loc == Deref(ret[r])
           req == Deref(args[r])
           opts == [StartTime |-> loc.startTime, EndTime |-> loc.endTime,
                    Tempo |-> EffectiveTempo(req.Tempo)]
       IN  \E recognised \in
                Recognised(((loc.endTime - loc.startTime) * 1000) \div opts.Tempo) :
              LET partialTokens == TranscribePartial(opts, recognised)
                  merged == Merged(loc.transcript, req.Model, partialTokens,
                                   req.SegmentStart, req.SegmentEnd,
                                   loc.startTime, loc.endTime)
              IN  /\ transcript' = Ptr(merged)
                  /\ ret' = [ret EXCEPT ![r] =
                                Ptr([loc EXCEPT !.pc = "done"]
                                      @@ [partialResult |-> partialTokens,
                                          updatedResult |-> merged])]
    /\ UNCHANGED <<jobVars, args>>

NextConcurrent ==
    \/ \E r \in Requests : RetranscribeRead(r)
    \/ \E r \in Requests : RetranscribeWrite(r)

SpecConcurrent == InitConcurrent /\ [][NextConcurrent]_vars

\* ---------------------------------------------------------------- claims

Queued(j) == jobs[j].status = Ptr(JobStatusQueued)

\* worker w is between Start and the end of processNextJob for its job
InHandler(w) == pc[w] \in {"handling", "transcribing", "returned"}

\* worker w takes a step of run/processNextJob
WorkerStep(w) == pc'[w] # pc[w]

\* C1: no job is run by two workers: two workers are never both past Start,
\* in or after the handler, for the same job.
C1_NoJobRunTwice ==
    \A w1, w2 \in Workers :
        (w1 # w2 /\ InHandler(w1) /\ InHandler(w2))
            => Deref(wjob[w1]).ID # Deref(wjob[w2]).ID

\* C2: start(id) takes effect only on a queued job, so no two start(id)
\* calls on one id both succeed without a retry(id) between them.
C2_StartOnlyQueued ==
    [][\A w \in Workers :
          (pc[w] = "fetched" /\ pc'[w] = "handling")
              => Queued(Deref(wjob[w]).ID)]_vars

\* C3: a job's status changes only by queued->running, running->completed,
\* running->failed or running->queued.
AllowedTransitions ==
    { <<JobStatusQueued, JobStatusRunning>>,
      <<JobStatusRunning, JobStatusCompleted>>,
      <<JobStatusRunning, JobStatusFailed>>,
      <<JobStatusRunning, JobStatusQueued>> }

C3_OnlyAllowedTransitions ==
    [][\A j \in JobIds :
          jobs'[j].status # jobs[j].status
              => <<Deref(jobs[j].status), Deref(jobs'[j].status)>>
                    \in AllowedTransitions]_vars

\* C4: a job created with no retry_count supplied, whose handler fails on
\* every attempt, has its handler invoked at most 4 times (1 + maxRetries).
C4_AtMostFourAttempts ==
    \A j \in JobIds :
        created[j].RetryCount = Nil => handlerCalls[j] <= maxRetries + 1

\* C5: a job that has exhausted its retries (its handler has failed
\* 1 + maxRetries times and no worker is working on it) has status failed
\* with the handler's error stored, and stays so.
C5_ExhaustedIsFailed ==
    \A j \in JobIds :
        (/\ handlerCalls[j] >= maxRetries + 1
         /\ \A w \in Workers : wjob[w] = Nil \/ Deref(wjob[w]).ID # j)
            => /\ jobs[j].status = Ptr(JobStatusFailed)
               /\ jobs[j].error = Ptr(ErrNoSourceID)

\* C6: get_next_queued returns nil exactly when no job is queued, and
\* otherwise a queued job with the least (priority, created_at): a worker
\* never pops a job while a queued job of smaller priority number, or of the
\* same priority and earlier creation, exists.
C6_PopsMinimum ==
    /\ [](GetNextQueuedJob(jobs) = {} <=> ~ \E j \in JobIds : Queued(j))
    /\ [][\A w \in Workers :
            (pc[w] = "idle" /\ pc'[w] = "fetched")
                => LET j == Deref(wjob'[w]).ID IN
                   /\ Queued(j)
                   /\ \A k \in JobIds :
                        Queued(k) =>
                            \/ Deref(jobs[j].priority) < Deref(jobs[k].priority)
                            \/ /\ Deref(jobs[j].priority) = Deref(jobs[k].priority)
                               /\ jobs[j].created_at <= jobs[k].created_at]_vars

\* a worker has popped a job of priority 0 past an older queued job of
\* priority 5
C6_Witness ==
    \E w \in Workers, k \in JobIds :
        /\ pc[w] = "fetched"
        /\ Queued(k)
        /\ Queued(Deref(wjob[w]).ID)
        /\ Deref(jobs[k].priority) > Deref(jobs[Deref(wjob[w]).ID].priority)
        /\ jobs[k].created_at < jobs[Deref(wjob[w]).ID].created_at

\* C7: create(job) with no id, status, priority or retry_count supplied
\* stores status = queued, priority = 5 and retry_count = 0.
C7_CreateDefaults ==
    [][Len(jobs') > Len(jobs) =>
          LET j == Len(jobs') IN
          (/\ created'[j].ID = ""
           /\ created'[j].Status = Nil
           /\ created'[j].Priority = Nil
           /\ created'[j].RetryCount = Nil)
              => /\ jobs'[j].status = Ptr(JobStatusQueued)
                 /\ jobs'[j].priority = Ptr(JobPriorityNormal)
                 /\ jobs'[j].retry_count = Ptr(0)]_vars

\* C8: when the worker has fetched a job whose type has no registered
\* handler, its next step fails the job with the "no handler" error: the job
\* is failed with that error stored, the worker does not enter the handler,
\* and the job is not retried (not queued by the step, retry_count kept).
C8_NoHandlerFails ==
    [][\A w \in Workers :
          (/\ pc[w] = "fetched"
           /\ Deref(wjob[w]).Type \notin handlers[w]
           /\ WorkerStep(w))
              => LET id == Deref(wjob[w]).ID IN
                 /\ jobs'[id].status = Ptr(JobStatusFailed)
                 /\ jobs'[id].error = Ptr(ErrNoHandler)
                 /\ jobs'[id].retry_count = jobs[id].retry_count
                 /\ pc'[w] = "idle"
                 /\ handlerCalls' = handlerCalls]_vars

\* a job failed with the "no handler" error
C8_Witness ==
    \E j \in JobIds :
        /\ jobs[j].status = Ptr(JobStatusFailed)
        /\ jobs[j].error = Ptr(ErrNoHandler)
        /\ jobs[j].started_at = Nil

\* C9: when the handler returned the Cancelled error, the worker's next step
\* does not return the job to queued and does not change its retry_count;
\* a job goes back to queued only after a handler error other than Cancelled.
C9_CancelledNotRetried ==
    [][/\ \A w \in Workers :
            (/\ pc[w] = "returned"
             /\ herr[w] = Ptr(ErrCancelled)
             /\ WorkerStep(w))
                => LET id == Deref(wjob[w]).ID IN
                   /\ jobs'[id].retry_count = jobs[id].retry_count
                   /\ jobs'[id].status = jobs[id].status
       /\ \A j \in JobIds :
            (~Queued(j) /\ jobs'[j].status = Ptr(JobStatusQueued))
                => \E w \in Workers :
                      /\ pc[w] = "returned"
                      /\ Deref(wjob[w]).ID = j
                      /\ herr[w] \notin {Nil, Ptr(ErrCancelled)}]_vars

\* a handler has returned the Cancelled error for a running job that is
\* within its retry budget
C9_Witness ==
    \E w \in Workers :
        /\ pc[w] = "returned"
        /\ herr[w] = Ptr(ErrCancelled)
        /\ ShouldRetry(Deref(wjob[w]))
        /\ jobs[Deref(wjob[w]).ID].status = Ptr(JobStatusRunning)

\* C10: whenever the transcription handler has returned an error after the
\* Source was loaded, the Source's status is failed.
C10_SourceFailedOnError ==
    \A w \in Workers :
        (pc[w] = "returned" /\ herr[w] = Ptr(ErrTranscribe))
            => sources[Deref(Deref(wjob[w]).SourceID)].status
                  = Ptr(SourceStatusFailed)

\* how many times token x occurs in a list
Occurrences(tokens, x) == Cardinality({i \in DOMAIN tokens : tokens[i] = x})

\* C12: the timestamp merge of T with R over [s, e] returns the tokens of T
\* that start before s, then all of R, then the tokens of T that start at or
\* after e, each part in its order and no token altered; every token occurs
\* in the output as often as in the three parts together.
C12_MergeIsThreeParts ==
    ret # Nil =>
        LET T == args.original
            R == args.replacement
            Before(t) == t.StartTime < args.startTime
            AtOrAfter(t) == t.StartTime >= args.endTime
            early == SelectSeq(T, Before)
            late == SelectSeq(T, AtOrAfter)
            out == Deref(ret)
        IN  /\ out = early \o R \o late
            /\ \A x \in OriginalTokens \cup ReplacementTokens :
                  Occurrences(out, x)
                     = Occurrences(early, x) + Occurrences(R, x)
                          + Occurrences(late, x)

\* a merge that kept tokens on both sides of the range, dropped one inside
\* it, and kept a token that starts exactly at the end of the range
C12_Witness ==
    /\ ret # Nil
    /\ args.replacement # <<>>
    /\ \E i, j, k \in DOMAIN args.original :
          /\ args.original[i].StartTime < args.startTime
          /\ args.original[j].StartTime = args.endTime
          /\ args.original[k].StartTime >= args.startTime
          /\ args.original[k].StartTime < args.endTime
    /\ Len(Deref(ret)) = Len(args.original) - 1 + Len(args.replacement)

\* the concatenation of the lists f[1], ..., f[n]
RECURSIVE Concat(_, _)
Concat(f, n) == IF n = 0 THEN <<>> ELSE Concat(f, n - 1) \o f[n]

\* the slices of length L of [s, e], the last one possibly shorter
Slices(block, L) ==
    LET d == block.EndTime - block.StartTime
        n == (d + L - 1) \div L
    IN  [k \in 1..n |->
            SpeechBlock(block.StartTime + (k - 1) * L,
                        IF k < n THEN block.StartTime + k * L
                                 ELSE block.EndTime)]

\* a list of blocks tiles [s, e]: it starts at s, ends at e, and each block
\* starts where the one before it ends
Tiles(pieces, s, e) ==
    /\ pieces # <<>>
    /\ pieces[1].StartTime = s
    /\ pieces[Len(pieces)].EndTime = e
    /\ \A i \in 2..Len(pieces) : pieces[i].StartTime = pieces[i - 1].EndTime

\* C14: for max_block L > 0, split_long_blocks(L) replaces each block, in
\* order, by slices of length exactly L with a possibly shorter last slice,
\* a block no longer than L by itself: every output block is no longer than
\* L, and the output blocks of each input block tile it without gap or
\* overlap.
C14_SplitTilesInput ==
    (ret # Nil /\ Deref(ret).fn = "splitLongBlocks" /\ args.maxDuration > 0) =>
        LET L == args.maxDuration
            out == Deref(ret).blocks
            part == [i \in DOMAIN args.blocks |->
                        IF args.blocks[i].EndTime - args.blocks[i].StartTime <= L
                          THEN <<args.blocks[i]>>
                          ELSE Slices(args.blocks[i], L)]
        IN  /\ out = Concat(part, Len(args.blocks))
            /\ \A i \in DOMAIN out :
                  /\ out[i].EndTime - out[i].StartTime <= L
                  /\ out[i].EndTime > out[i].StartTime
            /\ \A i \in DOMAIN part :
                  /\ Tiles(part[i], args.blocks[i].StartTime,
                           args.blocks[i].EndTime)
                  /\ \A k \in 1..(Len(part[i]) - 1) :
                        part[i][k].EndTime - part[i][k].StartTime = L

\* a block was split into at least three slices, the last one shorter than
\* the others, next to a block that was kept whole
C14_Witness ==
    /\ ret # Nil
    /\ Deref(ret).fn = "splitLongBlocks"
    /\ Len(args.blocks) = 2
    /\ Len(Deref(ret).blocks) >= 4
    /\ \E i \in DOMAIN args.blocks : \E j \in DOMAIN Deref(ret).blocks :
          /\ Deref(ret).blocks[j] = args.blocks[i]
    /\ \E j \in DOMAIN Deref(ret).blocks :
          LET b == Deref(ret).blocks[j] IN
          /\ b.EndTime - b.StartTime < args.maxDuration
          /\ \E i \in DOMAIN args.blocks :
                /\ args.blocks[i].EndTime = b.EndTime
                /\ args.blocks[i].StartTime < b.StartTime

\* the main regions of a list of overlap blocks tile [s, e]
MainTiles(pieces, s, e) ==
    /\ pieces # <<>>
    /\ pieces[1].MainStart = s
    /\ pieces[Len(pieces)].MainEnd = e
    /\ \A i \in 2..Len(pieces) : pieces[i].MainStart = pieces[i - 1].MainEnd

\* by how much the physical region of piece i reaches into that of piece i + 1
Overlap(pieces, i) == pieces[i].EndTime - pieces[i + 1].StartTime

\* the call is one of split_long_blocks_with_overlap(L, O) with 0 < O < L
OverlapCall ==
    /\ ret # Nil
    /\ Deref(ret).fn = "splitLongBlocksWithOverlap"
    /\ 0 < args.overlap
    /\ args.overlap < args.maxDuration

\* the overlap blocks returned for input block i
PiecesOf(i) == OverlapBlocksOf(args.blocks[i], args.maxDuration, args.overlap)

\* the returned list is made of the pieces of each input block, in order
PiecesReturned ==
    Deref(ret).blocks
        = Concat([i \in DOMAIN args.blocks |-> PiecesOf(i)], Len(args.blocks))

\* block [0, 10], L = 5, O = 2 gives four blocks: main [0,3), [3,6), [6,9),
\* [9,10] and physical [0,5], [3,8], [6,10], [9,10]
ExampleS2 ==
    (/\ args.blocks = <<SpeechBlock(0, 10 * Second)>>
     /\ args.maxDuration = 5 * Second
     /\ args.overlap = 2 * Second)
        => Deref(ret).blocks
              = << OverlapBlock(0, 5 * Second, 0, 3 * Second),
                   OverlapBlock(3 * Second, 8 * Second, 3 * Second, 6 * Second),
                   OverlapBlock(6 * Second, 10 * Second, 6 * Second, 9 * Second),
                   OverlapBlock(9 * Second, 10 * Second, 9 * Second, 10 * Second) >>

\* C15 as stated: for 0 < O < L the main regions of each input block tile
\* it, consecutive physical regions overlap by exactly O, and block [0, 10]
\* with L = 5, O = 2 gives the four blocks of the example.
C15_OverlapExactlyO ==
    OverlapCall =>
        /\ PiecesReturned
        /\ \A i \in DOMAIN args.blocks :
              /\ MainTiles(PiecesOf(i), args.blocks[i].StartTime,
                           args.blocks[i].EndTime)
              /\ \A k \in 1..(Len(PiecesOf(i)) - 1) :
                    Overlap(PiecesOf(i), k) = args.overlap
        /\ ExampleS2

\* C15 amended: consecutive physical regions overlap by exactly O when the
\* earlier one has the full length L, and by less than O but more than 0
\* when it is cut at the block's end; the rest as stated.
C15_OverlapAtMostO ==
    OverlapCall =>
        /\ PiecesReturned
        /\ \A i \in DOMAIN args.blocks :
              /\ MainTiles(PiecesOf(i), args.blocks[i].StartTime,
                           args.blocks[i].EndTime)
              /\ \A k \in 1..(Len(PiecesOf(i)) - 1) :
                    LET p == PiecesOf(i)[k] IN
                    IF p.EndTime - p.StartTime = args.maxDuration
                      THEN Overlap(PiecesOf(i), k) = args.overlap
                      ELSE /\ p.EndTime = args.blocks[i].EndTime
                           /\ 0 < Overlap(PiecesOf(i), k)
                           /\ Overlap(PiecesOf(i), k) < args.overlap
        /\ ExampleS2

\* the call of the example has returned: its third physical region is cut
\* at the block's end and reaches only 1 s into the fourth
C15_Witness ==
    /\ OverlapCall
    /\ args.blocks = <<SpeechBlock(0, 10 * Second)>>
    /\ args.maxDuration = 5 * Second
    /\ args.overlap = 2 * Second
    /\ Len(Deref(ret).blocks) = 4
    /\ Overlap(Deref(ret).blocks, 2) = 2 * Second
    /\ Overlap(Deref(ret).blocks, 3) = Second

\* the number of consecutive silent frames that end with frame i (0-based)
RECURSIVE SilentRun(_, _, _)
SilentRun(frames, threshold, i) ==
    IF i < 0 \/ frames[i + 1] >= threshold THEN 0
    ELSE 1 + SilentRun(frames, threshold, i - 1)

\* C16: on frame i the detector closes a block exactly when it is InSpeech
\* and the run of consecutive silent frames has reached min_silence_frames;
\* the block [speech_start_frame, i - silence_run_count + 1] is then emitted
\* iff it is at least min_speech_frames long, and nothing is emitted
\* otherwise.  The trace of S1 (30 ms frames, min_silence 90 ms, min_speech
\* 60 ms, threshold 0.1) gives exactly the blocks 90-180 ms and 270-330 ms.
C16_ClosesOnSilenceRun ==
    /\ [](ret # Nil /\ Deref(ret).pc = "returned"
             /\ args.frames = TraceS1
             /\ args.config.MinSilenceDuration = 90
             /\ args.config.MinSpeechDuration = 60
          => Deref(ret).blocks = <<SpeechBlock(90, 180), SpeechBlock(270, 330)>>)
    /\ [][(ret # Nil /\ Deref(ret).pc = "frames" /\ Deref(ret').pc = "frames") =>
            LET loc == Deref(ret)
                new == Deref(ret')
                i == loc.i
                run == SilentRun(args.frames, args.config.SilenceThreshold, i)
                closes == loc.inSpeech /\ run >= 1
                             /\ run >= loc.minSilenceFrames
                start == loc.speechStart
                end == i - run + 1
            IN  /\ closes <=> (loc.inSpeech /\ ~new.inSpeech)
                /\ IF closes /\ end - start >= loc.minSpeechFrames
                     THEN new.blocks = Append(loc.blocks,
                             SpeechBlock(start * FrameDuration,
                                         end * FrameDuration))
                     ELSE new.blocks = loc.blocks]_vars

\* the detector has returned the two blocks of scenario S1
C16_Witness ==
    /\ ret # Nil
    /\ Deref(ret).pc = "returned"
    /\ args.frames = TraceS1
    /\ args.config.MinSilenceDuration = 90
    /\ args.config.MinSpeechDuration = 60
    /\ Len(Deref(ret).blocks) = 2

\* the alignment operations that emit a token, in order
EmittingOps(originalTokens, whisperText) ==
    LET Kept(e) == e.op # "delete"
    IN  SelectSeq(computeAlignment(OriginalRunes(originalTokens), whisperText),
                  Kept)

\* the original token that contains rune number origIdx (0-based)
RECURSIVE TokenOfRune(_, _)
TokenOfRune(tokens, origIdx) ==
    IF origIdx < Len(Head(tokens).Text) THEN Head(tokens)
    ELSE TokenOfRune(Tail(tokens), origIdx - Len(Head(tokens).Text))

\* C17: in the tokens returned by AlignTokensWithText, every token emitted
\* for a Match operation has the start_time of the original token that
\* contains the matched character (and is that character).
C17_MatchKeepsStartTime ==
    (ret # Nil /\ args.originalTokens # <<>> /\ args.whisperText # <<>>) =>
        LET ops == EmittingOps(args.originalTokens, args.whisperText)
            out == Deref(ret)
        IN  (\E k \in DOMAIN ops : ops[k].op = "match") =>
              /\ Len(out) = Len(ops)
              /\ \A k \in DOMAIN ops : ops[k].op = "match" =>
                    LET orig == TokenOfRune(args.originalTokens, ops[k].origIdx)
                    IN  /\ out[k].StartTime = orig.StartTime
                        /\ out[k].Text = <<args.whisperText[ops[k].whisperIdx + 1]>>
                        /\ out[k].Text[1] \in {orig.Text[n] : n \in DOMAIN orig.Text}

\* scenario S4 on the grid: ("a", 0), ("u", 200) against "aiu" gives the
\* two matched tokens at 0 and 200 and the inserted one in between
C17_Witness ==
    /\ ret # Nil
    /\ args.originalTokens = <<Token(<<"a">>, 0, 2 * Tick),
                               Token(<<"u">>, 2 * Tick, 2 * Tick)>>
    /\ args.whisperText = <<"a", "i", "u">>
    /\ Deref(ret) = <<Token(<<"a">>, 0, 2 * Tick),
                      Token(<<"i">>, Tick, 2 * Tick),
                      Token(<<"u">>, 2 * Tick, 2 * Tick)>>

\* the ordering slack of 0.1 s that the timestamp test allows
OrderingSlack == 100

ValidTimestamps(tokens) ==
    /\ \A i, j \in DOMAIN tokens :
          i < j => tokens[i].StartTime <= tokens[j].StartTime + OrderingSlack
    /\ \A i \in DOMAIN tokens :
          tokens[i].StartTime >= 0 /\ tokens[i].Duration >= 0

TokensIn(result, i) ==
    LET Within(token) == token.StartTime >= result.Segments[i + 1].StartTime
                            /\ token.StartTime <= result.Segments[i + 1].EndTime
    IN  SelectSeq(result.Tokens, Within)

AlignOps(old, request, partialTokens) ==
    EmittingOps(SegmentTokensOf(old.Tokens, old.Segments,
                                request.SegmentStart, request.SegmentEnd),
                RebuildTextFromTokens(partialTokens))

\* C18: in the Result of the align merge, every token whose character was
\* matched to an original character carries that original token's
\* start_time.
C18_AlignKeepsMatchedStart ==
    [][(transcript # Nil /\ transcript' # transcript
          /\ args'.fn = "Retranscribe" /\ args'.Model = ASRModelWhisperAlign) =>
          LET old == Deref(transcript)
              new == Deref(transcript')
              segmentTokens == SegmentTokensOf(old.Tokens, old.Segments,
                                   args'.SegmentStart, args'.SegmentEnd)
              ops == AlignOps(old, args', Deref(ret').partialResult)
              before == Len(TokensBefore(old.Tokens,
                               old.Segments[args'.SegmentStart + 1].StartTime))
          IN  (segmentTokens # <<>>) =>
                 \A k \in DOMAIN ops : ops[k].op = "match" =>
                    /\ before + k <= Len(new.Tokens)
                    /\ new.Tokens[before + k].StartTime
                          = TokenOfRune(segmentTokens, ops[k].origIdx).StartTime]_vars

C20_SegmentsWellFormed ==
    transcript # Nil =>
        \A k \in DOMAIN Deref(transcript).Segments :
            /\ Deref(transcript).Segments[k].EndTime
                  >= Deref(transcript).Segments[k].StartTime
            /\ Deref(transcript).Segments[k].Text # <<>>

\* the block that is open when the loop over the frames has ended
OpenBlock(loc, nframes) ==
    SpeechBlock(loc.speechStart * FrameDuration, nframes * FrameDuration)

\* the detector's loop has ended in InSpeech and this step returns
ReturnsInSpeech ==
    /\ ret # Nil
    /\ Deref(ret).pc = "frames"
    /\ Deref(ret').pc = "returned"
    /\ Deref(ret).inSpeech

\* C21 as stated: if the input ends while the detector is InSpeech, the
\* open block is always emitted, as the block from speech_start_frame to
\* the end of the input.
C21_EofClosesEveryOpenBlock ==
    [][ReturnsInSpeech =>
          Deref(ret').blocks =
             splitLongBlocks(Append(Deref(ret).blocks,
                                    OpenBlock(Deref(ret), Len(args.frames))),
                             args.config.MaxBlockDuration)]_vars

\* C21: if the input ends while the detector is InSpeech, the open block
\* is emitted as the block from speech_start_frame to the end of the input
\* iff it is at least min_speech_frames long; a shorter one is dropped.
C21_EofClosesLongEnoughBlock ==
    [][ReturnsInSpeech =>
          LET loc == Deref(ret)
              n == Len(args.frames)
          IN  Deref(ret').blocks =
                 splitLongBlocks(
                    IF n - loc.speechStart >= loc.minSpeechFrames
                      THEN Append(loc.blocks, OpenBlock(loc, n))
                      ELSE loc.blocks,
                    args.config.MaxBlockDuration)]_vars

\* the input ended in InSpeech after an earlier block, and the open block
\* was emitted up to the end of the input
C21_Witness ==
    /\ ret # Nil
    /\ Deref(ret).pc = "returned"
    /\ Deref(ret).inSpeech
    /\ Len(Deref(ret).blocks) = 2
    /\ Deref(ret).blocks[2] = OpenBlock(Deref(ret), Len(args.frames))

\* the blocks the state machine has emitted so far; the inputs are shorter
\* than max block, so the split returns them as they were emitted
Emitted ==
    IF ret # Nil /\ "pc" \in DOMAIN Deref(ret)
          /\ (Deref(ret).pc = "returned" =>
                 Len(args.frames) * FrameDuration <= args.config.MaxBlockDuration)
      THEN Deref(ret).blocks
      ELSE <<>>

\* C30: with min_silence_frames >= 1 the blocks the state machine emits are
\* in strictly increasing time order and pairwise disjoint, each begins at
\* a non-silent frame, each is at least min_speech_frames long, and none
\* contains min_silence_frames or more consecutive silent frames.
C30_EmittedBlocksWellFormed ==
    (ret # Nil /\ Deref(ret).minSilenceFrames >= 1) =>
        LET loc == Deref(ret)
            first(k) == Emitted[k].StartTime \div FrameDuration
            end(k) == Emitted[k].EndTime \div FrameDuration
        IN  \A k \in DOMAIN Emitted :
               /\ first(k) < end(k)
               /\ k > 1 => end(k - 1) <= first(k)
               /\ ~IsSilent(args.frames[first(k) + 1],
                            args.config.SilenceThreshold)
               /\ end(k) - first(k) >= loc.minSpeechFrames
               /\ \A j \in first(k)..(end(k) - 1) :
                     SilentRun(args.frames, args.config.SilenceThreshold, j)
                        < loc.minSilenceFrames

\* two blocks were emitted and the first one contains a silent frame
C30_Witness ==
    /\ ret # Nil
    /\ Deref(ret).pc = "returned"
    /\ Deref(ret).minSilenceFrames >= 1
    /\ Len(Emitted) = 2
    /\ \E j \in (Emitted[1].StartTime \div FrameDuration)
                   ..((Emitted[1].EndTime \div FrameDuration) - 1) :
          IsSilent(args.frames[j + 1], args.config.SilenceThreshold)

\* C23: estimate_duration returns the mean duration of the anchors clamped
\* to [0.1, 0.3] seconds, never below 0.1 and never above 0.3, and 0.1 when
\* there are no anchors.
C23_DurationClamped ==
    ret # Nil =>
        LET n == Len(args.anchors)
            mean == TotalDuration(args.anchors) \div n
        IN  /\ Deref(ret) >= 100
            /\ Deref(ret) <= 300
            /\ n = 0 => Deref(ret) = 100
            /\ (n > 0 /\ args.totalChars > 0) =>
                  Deref(ret) = (IF mean < 100 THEN 100
                                ELSE IF mean > 300 THEN 300 ELSE mean)

\* C24: split_long_blocks_with_overlap terminates and returns a finite
\* list for every block list and every pair (max_block, overlap), pairs
\* with overlap >= max_block included.
C24_SplitTerminates ==
    <>(ret # Nil /\ Deref(ret).pc = "returned")

\* the subsequences of s
Subsequences(s) ==
    { LET idx == {i \in DOMAIN s : i \in I}
          Pick(i) == i \in idx
          kept == SelectSeq([i \in DOMAIN s |-> i], Pick)
      IN  [k \in 1..Len(kept) |-> s[kept[k]]] : I \in SUBSET DOMAIN s }

\* the length of a longest common subsequence, by enumeration
LongestCommon(o, w) ==
    MaxOf({Len(s) : s \in Subsequences(o) \cap Subsequences(w)})

\* C28: the LCS alignment of O and W is a valid edit script with the
\* maximum number of matches: its Match and Delete entries visit every
\* code point of O exactly once in order, its Match and Insert entries
\* visit every code point of W exactly once in order, every Match pairs
\* equal code points, and the number of Matches is the length of a longest
\* common subsequence of O and W.
C28_AlignmentIsLongestCommon ==
    ret # Nil =>
        LET alignment == Deref(ret).alignment
            OfOriginal(e) == e.op \in {"match", "delete"}
            OfWhisper(e) == e.op \in {"match", "insert"}
            IsMatch(e) == e.op = "match"
            onO == SelectSeq(alignment, OfOriginal)
            onW == SelectSeq(alignment, OfWhisper)
        IN  /\ \A k \in DOMAIN alignment :
                  alignment[k].op \in {"match", "insert", "delete"}
            /\ [k \in DOMAIN onO |-> onO[k].origIdx]
                  = [k \in 1..Len(args.original) |-> k - 1]
            /\ [k \in DOMAIN onW |-> onW[k].whisperIdx]
                  = [k \in 1..Len(args.whisper) |-> k - 1]
            /\ \A k \in DOMAIN alignment :
                  IsMatch(alignment[k]) =>
                     args.original[alignment[k].origIdx + 1]
                        = args.whisper[alignment[k].whisperIdx + 1]
            /\ Len(SelectSeq(alignment, IsMatch))
                  = LongestCommon(args.original, args.whisper)

\* an alignment with a match, an insert and a delete
C28_Witness ==
    /\ ret # Nil
    /\ "alignment" \in DOMAIN Deref(ret)
    /\ \A op \in {"match", "insert", "delete"} :
          \E k \in DOMAIN Deref(ret).alignment :
             Deref(ret).alignment[k].op = op
    /\ LongestCommon(args.original, args.whisper) = 2

\* a partial re-transcription with the given model has just been merged
Retranscribed(model) ==
    /\ transcript # Nil
    /\ <<transcript, args, ret>>' # <<transcript, args, ret>>
    /\ args'.fn = "Retranscribe"
    /\ args'.Model = model

\* the concatenated text of the segments a..b (0-based) of a Result
RECURSIVE SegmentsText(_, _, _)
SegmentsText(result, a, b) ==
    IF a > b \/ a >= Len(result.Segments) THEN <<>>
    ELSE result.Segments[a + 1].Text \o SegmentsText(result, a + 1, b)

\* C22: in the duration-ratio merge over the affected segments s_a..s_b
\* with durations d_i and D = sum of d_i, every segment other than the last
\* receives floor(|R| * d_i / D) consecutive replacement tokens and s_b the
\* remaining ones, so the merged token list contains all |R| replacement
\* tokens and the rebuilt segment texts concatenate to the replacement text.
C22_RatioMergeKeepsAllTokens ==
    [][Retranscribed(ASRModelWhisper) =>
          LET old == Deref(transcript)
              new == Deref(transcript')
              a == args'.SegmentStart
              b == args'.SegmentEnd
              R == Deref(ret').partialResult
              d(i) == old.Segments[i + 1].EndTime - old.Segments[i + 1].StartTime
              D == RangeDuration(old.Segments, a, b)
              startTime == old.Segments[a + 1].StartTime
              endTime == old.Segments[b + 1].EndTime
          IN  /\ D > 0 => \A i \in a..(b - 1) :
                    Len(new.Segments[i + 1].Text) = (Len(R) * d(i)) \div D
              /\ Len(new.Tokens) = Len(TokensBefore(old.Tokens, startTime))
                                     + Len(R)
                                     + Len(TokensFrom(old.Tokens, endTime))
              /\ SegmentsText(new, a, b) = RebuildTextFromTokens(R)]_vars

\* C29: in the timestamp-based merge of a partial re-transcription every
\* replacement token placed in the merged token list appears in the text
\* of exactly one rebuilt segment, so the concatenated text of the affected
\* segments equals the concatenated text of the replacement tokens.
C29_TimestampMergeKeepsAllText ==
    [][Retranscribed(ASRModelReazonSpeech) =>
          LET new == Deref(transcript')
              R == Deref(ret').partialResult
          IN  /\ \A n \in DOMAIN R :
                    \E k \in DOMAIN new.Tokens : new.Tokens[k] = R[n]
              /\ SegmentsText(new, args'.SegmentStart, args'.SegmentEnd)
                    = RebuildTextFromTokens(R)]_vars

\* C26: after any sequence of transcription job attempts for one Source,
\* a retry after a handler that failed part-way and a full
\* re-transcription requested during an earlier job included, the Source
\* has at most one transcription artifact once no job for it is queued or
\* running.
C26_AtMostOneTranscriptionArtifact ==
    \A s \in SourceIds :
        (\A j \in JobIds :
            jobs[j].source_id = Ptr(s) =>
               jobs[j].status \notin {Ptr(JobStatusQueued), Ptr(JobStatusRunning)})
           => artifacts[s] <= 1

\* C25: with finitely many jobs submitted, a handler registered for every
\* job type, every handler invocation returning and the worker ticking,
\* every job eventually reaches completed or failed and stays there.
C25_EveryJobTerminates ==
    \A j \in 1..MaxJobs :
        [](j \in JobIds =>
              <>[](/\ j \in JobIds
                   /\ jobs[j].status \in {Ptr(JobStatusCompleted),
                                          Ptr(JobStatusFailed)}))

\* the tokens that start within [startTime, endTime)
Window(tokens, startTime, endTime) ==
    LET Within(token) == token.StartTime >= startTime
                            /\ token.StartTime < endTime
    IN  SelectSeq(tokens, Within)

\* both requests have returned, each had read the artifact before the other
\* wrote it, and their segment ranges are disjoint
BothDoneConcurrently ==
    /\ \A r \in Requests : /\ ret[r] # Nil
                           /\ Deref(ret[r]).pc = "done"
                           /\ Deref(ret[r]).writes = 0
    /\ \/ Deref(args[1]).SegmentEnd < Deref(args[2]).SegmentStart
       \/ Deref(args[2]).SegmentEnd < Deref(args[1]).SegmentStart

\* C27: two non-preview partial re-transcription requests on the same
\* Source over disjoint segment ranges that run concurrently both take
\* effect: the stored transcript finally holds, in the time range of each
\* request, the tokens that request wrote there.
C27_ConcurrentRequestsBothTakeEffect ==
    BothDoneConcurrently =>
        \A r \in Requests :
            LET loc == Deref(ret[r])
            IN  Window(Deref(transcript).Tokens, loc.startTime, loc.endTime)
                   = Window(loc.updatedResult.Tokens, loc.startTime, loc.endTime)
====
